---- MODULE Spec2Model ----
(***************************************************************************)
(* A model of the PortfolioPath Monte Carlo engine and of the entry points *)
(* that drive it.                                                          *)
(*                                                                         *)
(* Real numbers are fixed-point integers: a value v stands for v / Unit.   *)
(* Every product and quotient is rounded to that precision, as a float     *)
(* operation is rounded to its own; a rounding never turns a non-zero      *)
(* result into zero (a float underflows only some 300 decimal orders       *)
(* below the magnitudes that occur here).                                  *)
(***************************************************************************)
EXTENDS Integers, Sequences, FiniteSets, TLC

\* ------------------------------------------------------------------------
\* Fixed-point arithmetic
\* ------------------------------------------------------------------------

\* Half * Half = Unit: a product is formed from the halves of its operands
\* so that no intermediate value leaves the 32-bit range.
Half == 10 * 100
Unit == Half * Half
UnitDigits == 2 * 3

\* The correlation matrix and its factor are held at a finer resolution,
\* CorrUnit = 10^8, at which the eigenvalue floor 1e-8 is one unit.
CorrHalf == 100 * 100
CorrUnit == CorrHalf * CorrHalf
CorrDigits == 2 * 4

\* float('nan'): outside the range of every value the model computes.
NaN == 0 - 2147483647

\* float('inf') and float('-inf')
Inf == 2147483646 + 1
NegInf == 0 - 2147483646
IsFinite(x) == x # NaN /\ x # Inf /\ x # NegInf

Abs(x) == IF x < 0 THEN 0 - x ELSE x
Sgn(x) == IF x < 0 THEN 0 - 1 ELSE IF x = 0 THEN 0 ELSE 1
Max2(x, y) == IF x >= y THEN x ELSE y
Min2(x, y) == IF x <= y THEN x ELSE y

MulMag(h, a, b) ==
    LET ah == a \div h
        al == a % h
        bh == b \div h
        bl == b % h
    IN  ah * bh + ((ah * bl + al * bh + ((al * bl) \div h)) \div h)

\* a * b on reals of unit h * h
MulH(h, a, b) ==
    LET m == MulMag(h, Abs(a), Abs(b))
    IN  Sgn(a) * Sgn(b) * (IF m = 0 /\ a # 0 /\ b # 0 THEN 1 ELSE m)

Mul(a, b) == MulH(Half, a, b)

RECURSIVE Pow10(_)
Pow10(k) == IF k = 0 THEN 1 ELSE 10 * Pow10(k - 1)

\* the first k decimal digits of r / b, for 0 <= r < b
RECURSIVE FracDigits(_, _, _)
FracDigits(r, b, k) ==
    IF k = 0 THEN 0
    ELSE LET x == r * 10
         IN  (x \div b) * Pow10(k - 1) + FracDigits(x % b, b, k - 1)

\* a / b on reals of unit 10^digits; 0/0 is nan and x/0 is +-inf (numpy
\* issues a warning and goes on)
DivH(digits, a, b) ==
    IF a = NaN \/ b = NaN THEN NaN
    ELSE IF b = 0 THEN (IF a = 0 THEN NaN ELSE IF a > 0 THEN Inf ELSE NegInf)
    ELSE LET m == (Abs(a) \div Abs(b)) * Pow10(digits)
                  + FracDigits(Abs(a) % Abs(b), Abs(b), digits)
         IN  Sgn(a) * Sgn(b) * (IF m = 0 /\ a # 0 THEN 1 ELSE m)

Div(a, b) == DivH(UnitDigits, a, b)

\* a / n for a real a and a count n > 0
DivInt(a, n) ==
    LET m == Abs(a) \div n
    IN  Sgn(a) * (IF m = 0 /\ a # 0 THEN 1 ELSE m)

\* the largest k in lo..hi with k * k <= x (lo * lo <= x is given)
RECURSIVE ISqrtIn(_, _, _)
ISqrtIn(x, lo, hi) ==
    IF lo >= hi THEN lo
    ELSE LET mid == (lo + hi + 1) \div 2
         IN  IF mid * mid <= x THEN ISqrtIn(x, mid, hi) ELSE ISqrtIn(x, lo, mid - 1)

ISqrt(x) == ISqrtIn(x, 0, 46340)

\* the largest e in lo..hi with (r0 * h + e)^2 <= x * h * h, rem = x - r0^2
RECURSIVE SqrtFrac(_, _, _, _, _)
SqrtFrac(h, r0, rem, lo, hi) ==
    IF lo >= hi THEN lo
    ELSE LET mid == (lo + hi + 1) \div 2
         IN  IF 2 * r0 * mid + ((mid * mid + h - 1) \div h) <= rem * h
             THEN SqrtFrac(h, r0, rem, mid, hi)
             ELSE SqrtFrac(h, r0, rem, lo, mid - 1)

\* sqrt(a) on reals of unit h * h, a >= 0
SqrtH(h, a) ==
    LET r0 == ISqrt(a)
    IN  r0 * h + SqrtFrac(h, r0, a - r0 * r0, 0, h - 1)

Sqrt(a) == SqrtH(Half, a)

\* round(x, d): to d decimals, a tie going to the even neighbour
Round(x, d) ==
    IF ~IsFinite(x) THEN x
    ELSE LET q == Unit \div Pow10(d)
             m == Abs(x)
             lo == m \div q
             r == m % q
             n == IF 2 * r > q \/ (2 * r = q /\ lo % 2 = 1) THEN lo + 1 ELSE lo
         IN  Sgn(x) * n * q

\* ------------------------------------------------------------------------
\* Sequences and tensors
\* ------------------------------------------------------------------------

RECURSIVE SumSeq(_)
SumSeq(s) == IF s = <<>> THEN 0 ELSE Head(s) + SumSeq(Tail(s))

RECURSIVE MinSeq(_)
MinSeq(s) == IF Len(s) = 1 THEN s[1] ELSE Min2(Head(s), MinSeq(Tail(s)))

RECURSIVE MaxSeq(_)
MaxSeq(s) == IF Len(s) = 1 THEN s[1] ELSE Max2(Head(s), MaxSeq(Tail(s)))

RECURSIVE Insert(_, _)
Insert(x, s) ==
    IF s = <<>> THEN <<x>>
    ELSE IF x <= Head(s) THEN <<x>> \o s
    ELSE <<Head(s)>> \o Insert(x, Tail(s))

\* np.sort
RECURSIVE Sort(_)
Sort(s) == IF s = <<>> THEN <<>> ELSE Insert(Head(s), Sort(Tail(s)))

\* ------------------------------------------------------------------------
\* Bounds of the model
\* ------------------------------------------------------------------------

\* config.num_simulations and config.time_horizon of the calls explored
NumSims == 3
Horizon == 3
\* seeds an engine is constructed with: 0..MaxSeed
MaxSeed == 1
\* states the process-wide generator may hold when an engine is constructed
\* without a seed (the OS entropy it was initialised from)
NumEntropy == 2

\* ------------------------------------------------------------------------
\* np.random: the process-wide generator.  Its state is one integer; a draw
\* advances the state and reads the new state's leading bits.
\* ------------------------------------------------------------------------

RngMod == 2 * 128
RngNext(s) == (141 * s + 77) % RngMod
RngWord(s) == s \div 8

\* np.random.seed(k)
RngSeed(k) == (97 * k + 13) % RngMod

EntropyStates == {(59 * e + 7) % RngMod : e \in 0..(NumEntropy - 1)}

\* the n states that follow s
RECURSIVE RngStream(_, _)
RngStream(s, n) ==
    IF n = 0 THEN <<>>
    ELSE LET s1 == RngNext(s) IN <<s1>> \o RngStream(s1, n - 1)

RngAfter(s, n) == IF n = 0 THEN s ELSE RngStream(s, n)[n]

Pick(table, w) == table[(w % Len(table)) + 1]

\* values a standard normal, a Student-t and a uniform draw take in the model
NormalTable == <<0, Unit, 0 - Unit, Unit \div 2, 0 - 2 * Unit, 0 - (Unit \div 2), 2 * Unit>>
StudentTable == <<0, Unit, 0 - Unit, 0 - 8 * Unit, Unit \div 2, 2 * Unit, 0 - 2 * Unit, 0 - (Unit \div 2), 0 - 3 * Unit>>
UniformTable == <<500000, 10000, 300000, 70000, 900000, 30000>>

\* np.random.standard_normal(size = n), flat, drawn from state s
StandardNormal(s, n) ==
    LET st == RngStream(s, n) IN [i \in 1..n |-> Pick(NormalTable, RngWord(st[i]))]

\* np.random.standard_t(df, size = n)
StandardT(s, df, n) ==
    LET st == RngStream(s, n) IN [i \in 1..n |-> Pick(StudentTable, RngWord(st[i]))]

\* np.random.random(size = n)
RandomUniform(s, n) ==
    LET st == RngStream(s, n) IN [i \in 1..n |-> Pick(UniformTable, RngWord(st[i]))]

\* np.random.normal(loc, scale, size = n)
RandomNormal(s, loc, scale, n) ==
    LET z == StandardNormal(s, n) IN [i \in 1..n |-> loc + Mul(scale, z[i])]

\* a flat array of S*T*A (S*T) entries in row-major order as a tensor
Tensor3(S, T, A, flat) ==
    [s \in 1..S |-> [t \in 1..T |-> [a \in 1..A |-> flat[((s - 1) * T + (t - 1)) * A + a]]]]
Tensor2(S, T, flat) ==
    [s \in 1..S |-> [t \in 1..T |-> flat[(s - 1) * T + t]]]

\* ------------------------------------------------------------------------
\* Inputs of the engine
\* ------------------------------------------------------------------------

None == <<>>
NoSeed == 0 - 1

\* AssetParameters
Asset(ticker, weight, mean_return, volatility) ==
    [ticker |-> ticker, weight |-> weight, mean_return |-> mean_return,
     volatility |-> volatility]

AssetLists ==
    { <<Asset("SPY", Unit, 0, 0)>>,
      <<Asset("SPY", Unit, 400, 0)>>,
      <<Asset("QQQ", Unit, 10000, 125000)>>,
      <<Asset("SPY", 600000, 10000, 125000), Asset("BND", 400000, 2000, 50000)>>,
      <<Asset("AAPL", 500000, 20000, 125000), Asset("MSFT", 500000, 10000, 100000)>>,
      <<Asset("GLD", 300000, 0, 100000), Asset("XYZ", 700000, 5000, 125000)>> }

InitialValues == {Unit, 2 * Unit + Unit \div 2}

\* correlation matrices a caller supplies, entries in CorrUnit
CorrPD == << <<CorrUnit, 60000000>>, <<60000000, CorrUnit>> >>
CorrNotPSD == << <<CorrUnit, 120000000>>, <<120000000, CorrUnit>> >>
CorrAsymmetric == << <<CorrUnit, 20000000>>, <<60000000, CorrUnit>> >>
CorrOneByOne == << <<CorrUnit>> >>
CorrNaN == << <<NaN, NaN>>, <<NaN, NaN>> >>
CorrelationInputs == {None, CorrPD, CorrNotPSD, CorrAsymmetric, CorrOneByOne, CorrNaN}

IsSquare(m, n) == Len(m) = n /\ \A i \in 1..Len(m) : Len(m[i]) = n
IsSymmetric(m) ==
    \A i \in 1..Len(m) : \A j \in 1..Len(m[i]) :
        j <= Len(m) /\ i <= Len(m[j]) /\ m[i][j] = m[j][i] /\ m[i][j] # NaN

\* SimulationConfig
Configs ==
    [initial_value : InitialValues,
     time_horizon : {1, Horizon},
     num_simulations : {NumSims},
     use_correlation : BOOLEAN,
     use_fat_tails : BOOLEAN,
     use_garch : BOOLEAN,
     use_regime_switching : BOOLEAN,
     use_jump_diffusion : BOOLEAN,
     df : {5}]

\* ------------------------------------------------------------------------
\* MonteCarloEngine: the stages of run_simulation
\* ------------------------------------------------------------------------

equity_tickers == {"SPY", "QQQ", "VTI", "IWM", "AAPL", "MSFT", "GOOGL",
                   "AMZN", "NVDA", "META", "TSLA", "AMD", "INTC", "NFLX"}
bond_tickers == {"BND", "AGG", "TLT"}
commodity_tickers == {"GLD", "SLV", "USO"}
tech == {"AAPL", "MSFT", "GOOGL", "NVDA", "META", "AMD", "QQQ"}

\* a table that knows the stock-bond pair in one order only
PairCorrelationOneOrder(t1, t2) ==
    IF t1 \in equity_tickers /\ t2 \in equity_tickers
    THEN IF t1 \in tech /\ t2 \in tech THEN 75000000 ELSE 65000000
    ELSE IF t1 \in bond_tickers /\ t2 \in bond_tickers THEN 85000000
    ELSE IF t1 \in equity_tickers /\ t2 \in bond_tickers THEN 0 - 25000000
    ELSE IF t1 \in commodity_tickers \/ t2 \in commodity_tickers THEN 10000000
    ELSE 50000000

\* the default correlation of two tickers, in CorrUnit
PairCorrelation(t1, t2) ==
    IF t1 \in equity_tickers /\ t2 \in equity_tickers
    THEN IF t1 \in tech /\ t2 \in tech THEN 75000000 ELSE 65000000
    ELSE IF t1 \in bond_tickers /\ t2 \in bond_tickers THEN 85000000
    ELSE IF (t1 \in equity_tickers /\ t2 \in bond_tickers)
            \/ (t2 \in equity_tickers /\ t1 \in bond_tickers) THEN 0 - 25000000
    ELSE IF t1 \in commodity_tickers \/ t2 \in commodity_tickers THEN 10000000
    ELSE 50000000

\* _generate_correlation_matrix
GenerateCorrelationMatrix(tickers) ==
    [i \in 1..Len(tickers) |-> [j \in 1..Len(tickers) |->
        IF i = j THEN CorrUnit
        ELSE PairCorrelation(tickers[Min2(i, j)], tickers[Max2(i, j)])]]

HasNaN(m) == \E i \in 1..Len(m) : \E j \in 1..Len(m[i]) : m[i][j] = NaN

\* np.linalg.cholesky of a 1x1 or 2x2 matrix: only the lower triangle is
\* read; a pivot that is not positive (or not a number) raises LinAlgError.
\* The second pivot a22 - a21^2/a11 is tested exactly where the diagonal is
\* constant: its sign is that of a11^2 - a21^2.
Cholesky(m) ==
    IF HasNaN(m) \/ m[1][1] <= 0 THEN [ok |-> FALSE, L |-> None]
    ELSE IF Len(m) = 1
    THEN [ok |-> TRUE, L |-> << <<SqrtH(CorrHalf, m[1][1])>> >>]
    ELSE LET l11 == SqrtH(CorrHalf, m[1][1])
             l21 == DivH(CorrDigits, m[2][1], l11)
             pivot == m[2][2] - MulH(CorrHalf, l21, l21)
             positive == IF m[1][1] = m[2][2] THEN Abs(m[2][1]) < m[1][1]
                         ELSE pivot > 0
         IN  IF ~positive THEN [ok |-> FALSE, L |-> None]
             ELSE [ok |-> TRUE,
                   L |-> << <<l11, 0>>, <<l21, SqrtH(CorrHalf, Max2(pivot, 1))>> >>]

\* the floor np.maximum(eigenvalues, 1e-8) puts under the eigenvalues
Eps == 1

\* the eigenvalues left as eigh returned them
ClampEigenvalueOff(ev) == ev

\* np.maximum propagates nan
ClampEigenvalue(ev) == IF ev = NaN THEN NaN ELSE Max2(ev, Eps)

\* np.linalg.eigh of a symmetric matrix with a constant diagonal (which a
\* correlation matrix has), read from its lower triangle: eigenvalues a - b
\* and a + b, eigenvectors (1, -1)/sqrt 2 and (1, 1)/sqrt 2.
Eigenvalues(m) ==
    IF HasNaN(m) THEN [i \in 1..Len(m) |-> NaN]
    ELSE IF Len(m) = 1 THEN <<m[1][1]>>
    ELSE <<m[1][1] - m[2][1], m[1][1] + m[2][1]>>

\* eigenvectors @ diag(eigenvalues) @ eigenvectors.T for those eigenvectors
Reassemble(ev) ==
    IF \E i \in 1..Len(ev) : ev[i] = NaN
    THEN [i \in 1..Len(ev) |-> [j \in 1..Len(ev) |-> NaN]]
    ELSE IF Len(ev) = 1 THEN << <<ev[1]>> >>
    ELSE LET d == (ev[2] + ev[1]) \div 2
             o == d - ev[1]
         IN  << <<d, o>>, <<o, d>> >>

\* lines 119-121 of _cholesky_decomposition
EigenvalueAdjustment(m) ==
    LET ev == Eigenvalues(m)
    IN  Reassemble([i \in 1..Len(ev) |-> ClampEigenvalue(ev[i])])

\* _generate_random_returns, flat
GenerateRandomReturns(s, n, use_fat_tails, df) ==
    IF use_fat_tails THEN StandardT(s, df, n) ELSE StandardNormal(s, n)

\* a factor entry at the resolution of the returns
FromCorr(x) == Sgn(x) * (Abs(x) \div (CorrUnit \div Unit))

\* _apply_correlation: returns @ cholesky_matrix.T
ApplyCorrelation(returns, L) ==
    [s \in 1..Len(returns) |-> [t \in 1..Len(returns[s]) |->
        [i \in 1..Len(L) |->
            SumSeq([k \in 1..Len(L) |-> Mul(returns[s][t][k], FromCorr(L[i][k]))])]]]

omega == 1
alpha == 100000
beta == 850000

\* current_variance of one path and asset after the update of loop
\* iteration j (0-based), x the shocks of that path and asset over time
RECURSIVE CurrentVariance(_, _, _)
CurrentVariance(x, base_vol, j) ==
    IF j = 0 THEN Mul(base_vol, base_vol)
    ELSE LET shock == Mul(x[j], base_vol)
         IN  omega + Mul(alpha, Mul(shock, shock))
                   + Mul(beta, CurrentVariance(x, base_vol, j - 1))

\* _apply_garch: volatilities[:, t, :] is written before the update of
\* iteration t, and iteration 0 makes no update
ApplyGarch(returns, base_volatilities) ==
    [s \in 1..Len(returns) |-> [t \in 1..Len(returns[s]) |->
        [a \in 1..Len(base_volatilities) |->
            Sqrt(CurrentVariance([u \in 1..Len(returns[s]) |-> returns[s][u][a]],
                                 base_volatilities[a], Max2(t - 2, 0)))]]]

bull_mean_mult == 1500000
bull_vol_mult == 700000
bear_mean_mult == 0 - 500000
bear_vol_mult == 1800000
p_bull_to_bear == 50000
p_bear_to_bull == 100000

\* a chain that reads the variate of the step before
RECURSIVE RegimeStaleVariate(_, _)
RegimeStaleVariate(u, t) ==
    IF t = 1 THEN 1
    ELSE IF RegimeStaleVariate(u, t - 1) = 1
         THEN (IF u[t - 1] < p_bull_to_bear THEN 0 ELSE 1)
         ELSE (IF u[t - 1] < p_bear_to_bull THEN 1 ELSE 0)

\* the regime (1 = bull, 0 = bear) of one path at step t, u its transitions
RECURSIVE Regime(_, _)
Regime(u, t) ==
    IF t = 1 THEN 1
    ELSE IF Regime(u, t - 1) = 1
         THEN (IF u[t] < p_bull_to_bear THEN 0 ELSE 1)
         ELSE (IF u[t] < p_bear_to_bull THEN 1 ELSE 0)

\* _apply_regime_switching: regimes from the transitions tensor
Regimes(transitions) ==
    [s \in 1..Len(transitions) |-> [t \in 1..Len(transitions[s]) |->
        Regime(transitions[s], t)]]

\* the bull multiplier at every step, whatever the regime
MeanMultipliersAllBull(regimes) ==
    [s \in 1..Len(regimes) |-> [t \in 1..Len(regimes[s]) |-> bull_mean_mult]]

\* line 210
MeanMultipliers(regimes) ==
    [s \in 1..Len(regimes) |-> [t \in 1..Len(regimes[s]) |->
        IF regimes[s][t] = 1 THEN bull_mean_mult ELSE bear_mean_mult]]
VolMultipliers(regimes) ==
    [s \in 1..Len(regimes) |-> [t \in 1..Len(regimes[s]) |->
        IF regimes[s][t] = 1 THEN bull_vol_mult ELSE bear_vol_mult]]

\* returns whose drift ignores the regime
AssetReturnsPlainDrift(random_returns, volatilities, vol_mult, means, mean_mult) ==
    [s \in 1..Len(random_returns) |-> [t \in 1..Len(random_returns[s]) |->
        [a \in 1..Len(means) |->
            Mul(Mul(random_returns[s][t][a], volatilities[s][t][a]), vol_mult[s][t])
            + means[a]]]]

\* random_returns * volatilities * vol_mult + means * mean_mult
AssetReturns(random_returns, volatilities, vol_mult, means, mean_mult) ==
    [s \in 1..Len(random_returns) |-> [t \in 1..Len(random_returns[s]) |->
        [a \in 1..Len(means) |->
            Mul(Mul(random_returns[s][t][a], volatilities[s][t][a]), vol_mult[s][t])
            + Mul(means[a], mean_mult[s][t])]]]

jump_intensity == 20000
jump_mean == 0 - 30000
jump_vol == 40000

\* _apply_jump_diffusion: returns + jump_occurs * jump_sizes
ApplyJumpDiffusion(returns, occurs_draws, jump_sizes) ==
    [s \in 1..Len(returns) |-> [t \in 1..Len(returns[s]) |->
        [a \in 1..Len(returns[s][t]) |->
            returns[s][t][a]
            + (IF occurs_draws[s][t][a] < jump_intensity THEN jump_sizes[s][t][a] ELSE 0)]]]

\* np.sum(asset_returns * weights, axis=2)
PortfolioReturns(asset_returns, weights) ==
    [s \in 1..Len(asset_returns) |-> [t \in 1..Len(asset_returns[s]) |->
        SumSeq([a \in 1..Len(weights) |-> Mul(asset_returns[s][t][a], weights[a])])]]

\* the value of one path after t steps: paths[:, t + 1] = paths[:, t] * (1 + r)
RECURSIVE PathValue(_, _, _)
PathValue(initial_value, r, t) ==
    IF t = 0 THEN initial_value
    ELSE Mul(PathValue(initial_value, r, t - 1), Unit + r[t])

\* an integrator that stores the compounded values only, without column 0
ValuePathsNoStart(initial_value, portfolio_returns, n_sims, n_days) ==
    [s \in 1..n_sims |-> [c \in 1..n_days |->
        PathValue(initial_value, portfolio_returns[s], c)]]

\* lines 307-311: column 0 holds the initial value, each later column the
\* compounded one
ValuePaths(initial_value, portfolio_returns, n_sims, n_days) ==
    [s \in 1..n_sims |-> [c \in 1..(n_days + 1) |->
        PathValue(initial_value, portfolio_returns[s], c - 1)]]

\* paths[:, -1]
FinalValues(paths) == [s \in 1..Len(paths) |-> paths[s][Len(paths[s])]]

\* ------------------------------------------------------------------------
\* Statistics
\* ------------------------------------------------------------------------

\* np.mean
Mean(x) == DivInt(SumSeq(x), Len(x))

\* np.std: the population standard deviation
Std(x) ==
    LET m == Mean(x)
    IN  Sqrt(Mean([i \in 1..Len(x) |-> Mul(x[i] - m, x[i] - m)]))

\* (hi - lo) * rem / 100 without leaving the 32-bit range
Lerp(diff, rem) == (diff \div 100) * rem + (((diff % 100) * rem) \div 100)

\* the interpolation carried out on the values in simulation order
PercentileUnsorted(x, q) ==
    LET pos == (Len(x) - 1) * q
        lo == (pos \div 100) + 1
        rem == pos % 100
    IN  IF rem = 0 THEN x[lo] ELSE x[lo] + Lerp(x[lo + 1] - x[lo], rem)

\* np.percentile(x, q): linear interpolation between the order statistics
Percentile(x, q) ==
    LET v == Sort(x)
        pos == (Len(x) - 1) * q
        lo == (pos \div 100) + 1
        rem == pos % 100
    IN  IF rem = 0 THEN v[lo] ELSE v[lo] + Lerp(v[lo + 1] - v[lo], rem)

\* np.median
Median(x) ==
    LET v == Sort(x)
        n == Len(x)
    IN  IF n % 2 = 1 THEN v[(n + 1) \div 2]
        ELSE DivInt(v[n \div 2] + v[(n \div 2) + 1], 2)

SelectLE(x, threshold) == SelectSeq(x, LAMBDA r : r <= threshold)
CountPositive(x) == Len(SelectSeq(x, LAMBDA r : r > 0))

\* (final_values - config.initial_value) / config.initial_value
SimpleReturns(final_values, initial_value) ==
    [s \in 1..Len(final_values) |-> Div(final_values[s] - initial_value, initial_value)]

\* 0.04 / 252
RiskFreeDaily == DivInt(40000, 252)

\* _calculate_metrics; n_columns is paths.shape[1]
CalculateMetrics(returns, n_columns, initial_value) ==
    LET mean == Mean(returns)
        std == Std(returns)
        risk_free == RiskFreeDaily * n_columns
        sharpe == IF std > 0 THEN Div(mean - risk_free, std) ELSE 0
        threshold_95 == Percentile(returns, 5)
        es_95 == Mean(SelectLE(returns, threshold_95)) * 100
        dev == [i \in 1..Len(returns) |-> returns[i] - mean]
        cube == [i \in 1..Len(dev) |-> Mul(Mul(dev[i], dev[i]), dev[i])]
        fourth == [i \in 1..Len(dev) |-> Mul(Mul(Mul(dev[i], dev[i]), dev[i]), dev[i])]
        skewness == Div(Mean(cube), Mul(Mul(std, std), std))
        kurtosis == Div(Mean(fourth), Mul(Mul(Mul(std, std), std), std))
        prob_profit == DivInt(CountPositive(returns) * Unit, Len(returns)) * 100
    IN  [meanReturn |-> Round(mean * 100, 2),
         volatility |-> Round(std * 100, 2),
         sharpeRatio |-> Round(sharpe, 3),
         var95 |-> Round(Percentile(returns, 5) * 100, 2),
         var99 |-> Round(Percentile(returns, 1) * 100, 2),
         expectedShortfall |-> Round(es_95, 2),
         skewness |-> Round(skewness, 4),
         kurtosis |-> Round(kurtosis, 4),
         probProfit |-> Round(prob_profit, 1)]

\* _calculate_percentiles
CalculatePercentiles(final_values) ==
    [p5 |-> Round(Percentile(final_values, 5), 2),
     p10 |-> Round(Percentile(final_values, 10), 2),
     p25 |-> Round(Percentile(final_values, 25), 2),
     p50 |-> Round(Percentile(final_values, 50), 2),
     p75 |-> Round(Percentile(final_values, 75), 2),
     p90 |-> Round(Percentile(final_values, 90), 2),
     p95 |-> Round(Percentile(final_values, 95), 2),
     min |-> Round(MinSeq(final_values), 2),
     max |-> Round(MaxSeq(final_values), 2),
     mean |-> Round(Mean(final_values), 2)]

\* np.maximum.accumulate(paths, axis=1) of one path
RunningMax(path) == [c \in 1..Len(path) |-> MaxSeq(SubSeq(path, 1, c))]

\* np.min over the steps of (paths - running_max) / running_max
MaxDrawdowns(paths) ==
    [s \in 1..Len(paths) |->
        LET rm == RunningMax(paths[s])
        IN  MinSeq([c \in 1..Len(paths[s]) |-> Div(paths[s][c] - rm[c], rm[c])])]

\* _calculate_drawdowns
CalculateDrawdowns(paths) ==
    LET md == MaxDrawdowns(paths)
    IN  [medianMaxDrawdown |-> Round(Percentile(md, 50) * 100, 2),
         p90MaxDrawdown |-> Round(Percentile(md, 10) * 100, 2),
         p95MaxDrawdown |-> Round(Percentile(md, 5) * 100, 2),
         worstDrawdown |-> Round(MinSeq(md) * 100, 2),
         avgMaxDrawdown |-> Round(Mean(md) * 100, 2)]

\* ------------------------------------------------------------------------
\* State
\* ------------------------------------------------------------------------

VARIABLES
    pc,                  \* where the engine call stands
    rng,                 \* the state of the process-wide np.random generator
    seed,                \* the seed the engine is constructed with, or NoSeed
    assets,              \* run_simulation's arguments
    config,
    correlation_matrix,
    adjusted,            \* the eigenvalue-adjusted matrix, once computed
    chol_calls,          \* calls of np.linalg.cholesky made so far
    cholesky,            \* run_simulation's locals
    random_returns,
    volatilities,
    mean_mult,
    vol_mult,
    regimes,
    asset_returns,
    portfolio_returns,
    paths,
    final_values,
    metrics,
    percentiles,
    drawdowns,
    error,               \* the exception the call raised, or None
    results,             \* what the engine's earlier calls returned
    pool,                \* the calls handed to the thread pool _executor
    request,             \* the request an entry point of the API received
    api_pc,              \* where the handling of the request stands
    response,            \* the response sent, or None
    fetched,             \* calls of stock_service.calculate_statistics
    corr_fetched,        \* calls of stock_service.get_correlation_matrix
    engine_calls,        \* the run_simulation calls the entry points made
    goal_targets,        \* the targets calculate_goal_probability was called with
    goals,               \* what those calls returned
    sample_paths,        \* run_simulation_async: the paths picked for display
    fan_data,            \* run_simulation_async: the fan chart
    usage_table,         \* simulation_usage rows of the free user for today
    callers,             \* the /run requests of src/backend in flight
    passed,              \* usage checks the free user has passed today
    clock,               \* datetime.now() of the stock service, in seconds
    cache,               \* StockDataService._cache[ticker]: the quote stored (0: none)
    cache_time,          \* StockDataService._cache_time[ticker]
    fetches,             \* quotes fetched from the data provider so far
    quote_calls,         \* calls of get_quote so far
    quote,               \* what the last call of get_quote returned
    frontier_in,         \* _generate_efficient_frontier_sync: its arguments
    frontier_out,        \* _generate_efficient_frontier_sync: what it returned
    portfolios_db,       \* api/index.py: the portfolios stored for one user
    portfolio_ops        \* create and delete requests of that user so far

engineVars ==
    <<pc, rng, seed, assets, config, correlation_matrix, adjusted, chol_calls,
      cholesky, random_returns, volatilities, mean_mult, vol_mult, regimes,
      asset_returns, portfolio_returns, paths, final_values, metrics,
      percentiles, drawdowns, error>>

poolVars == <<pool>>

apiVars == <<request, api_pc, response, fetched, corr_fetched, engine_calls>>

goalVars == <<goal_targets, goals>>

\* the variables outside the engine call, the thread pool and the entry points
asyncVars == <<sample_paths, fan_data>>

usageVars == <<usage_table, callers, passed>>

quoteVars == <<clock, cache, cache_time, fetches, quote_calls, quote>>

frontierVars == <<frontier_in, frontier_out>>

storeVars == <<portfolios_db, portfolio_ops>>

laterVars == <<quoteVars, frontierVars, storeVars>>

restVars == <<goalVars, asyncVars, usageVars, laterVars>>

vars == <<engineVars, results, poolVars, apiVars, restVars>>

n_assets == Len(assets)
n_sims == config.num_simulations
n_days == config.time_horizon
tickers == [a \in 1..Len(assets) |-> assets[a].ticker]
weights == [a \in 1..Len(assets) |-> assets[a].weight]
means == [a \in 1..Len(assets) |-> assets[a].mean_return]
vols == [a \in 1..Len(assets) |-> assets[a].volatility]

\* the locals of a call that has not computed anything yet
NoLocals ==
    /\ adjusted = None
    /\ chol_calls = 0
    /\ cholesky = None
    /\ random_returns = None
    /\ volatilities = None
    /\ mean_mult = None
    /\ vol_mult = None
    /\ regimes = None
    /\ asset_returns = None
    /\ portfolio_returns = None
    /\ paths = None
    /\ final_values = None
    /\ metrics = None
    /\ percentiles = None
    /\ drawdowns = None
    /\ error = None

\* no call is in the thread pool
PoolIdle == pool = <<>>

\* no request is being handled
ApiIdle ==
    /\ request = None
    /\ api_pc = "idle"
    /\ response = None
    /\ fetched = 0
    /\ corr_fetched = 0
    /\ engine_calls = <<>>

\* calculate_goal_probability has not been called
GoalIdle ==
    /\ goal_targets = <<>>
    /\ goals = <<>>

\* the function run of run_simulation_async has serialized nothing
AsyncIdle ==
    /\ sample_paths = None
    /\ fan_data = None

\* no request has reached the usage check of src/backend
UsageIdle ==
    /\ usage_table = <<>>
    /\ callers = <<>>
    /\ passed = 0

\* the stock service has served no quote
QuoteIdle ==
    /\ clock = 0
    /\ cache = 0
    /\ cache_time = 0 - 1
    /\ fetches = 0
    /\ quote_calls = 0
    /\ quote = None

\* the efficient frontier has not been asked for
FrontierIdle ==
    /\ frontier_in = None
    /\ frontier_out = None

\* the in-memory API holds no portfolio
StoreIdle ==
    /\ portfolios_db = <<>>
    /\ portfolio_ops = 0

LaterIdle == QuoteIdle /\ FrontierIdle /\ StoreIdle

RestIdle == GoalIdle /\ AsyncIdle /\ UsageIdle /\ LaterIdle

\* An engine about to be constructed and called once.  A caller passes a
\* correlation matrix only with correlation enabled.
Init ==
    /\ pc = "init"
    /\ rng \in EntropyStates
    /\ seed \in {NoSeed} \cup (0..MaxSeed)
    /\ assets \in AssetLists
    /\ config \in Configs
    /\ correlation_matrix \in CorrelationInputs
    /\ correlation_matrix # None => config.use_correlation
    /\ NoLocals
    /\ results = <<>>
    /\ PoolIdle
    /\ ApiIdle
    /\ RestIdle

\* ------------------------------------------------------------------------
\* MonteCarloEngine.__init__ and run_simulation, stage by stage
\* ------------------------------------------------------------------------

\* __init__: a seed re-seeds the process-wide generator
Construct ==
    /\ pc = "init"
    /\ rng' = IF seed # NoSeed THEN RngSeed(seed) ELSE rng
    /\ pc' = "idle"
    /\ UNCHANGED <<seed, assets, config, correlation_matrix, adjusted, chol_calls,
                   cholesky, random_returns, volatilities, mean_mult, vol_mult,
                   regimes, asset_returns, portfolio_returns, paths, final_values,
                   metrics, percentiles, drawdowns, error>>
    /\ UNCHANGED <<results, poolVars, apiVars, restVars>>

\* lines 253-266: the matrix is synthesized when none is passed
Begin ==
    /\ pc = "idle"
    /\ IF config.use_correlation
       THEN /\ correlation_matrix' =
                 IF correlation_matrix = None
                 THEN GenerateCorrelationMatrix(tickers)
                 ELSE correlation_matrix
            /\ pc' = "cholesky"
       ELSE /\ pc' = "random"
            /\ UNCHANGED correlation_matrix
    /\ UNCHANGED <<rng, seed, assets, config, adjusted, chol_calls, cholesky,
                   random_returns, volatilities, mean_mult, vol_mult, regimes,
                   asset_returns, portfolio_returns, paths, final_values, metrics,
                   percentiles, drawdowns, error>>
    /\ UNCHANGED <<results, poolVars, apiVars, restVars>>

\* _cholesky_decomposition, line 116
CholeskyFirst ==
    /\ pc = "cholesky"
    /\ chol_calls' = chol_calls + 1
    /\ LET r == Cholesky(correlation_matrix)
       IN  IF r.ok
           THEN cholesky' = r.L /\ pc' = "random"
           ELSE cholesky' = cholesky /\ pc' = "adjust"
    /\ UNCHANGED <<rng, seed, assets, config, correlation_matrix, adjusted,
                   random_returns, volatilities, mean_mult, vol_mult, regimes,
                   asset_returns, portfolio_returns, paths, final_values, metrics,
                   percentiles, drawdowns, error>>
    /\ UNCHANGED <<results, poolVars, apiVars, restVars>>

\* _cholesky_decomposition, lines 117-121; np.linalg.eigh of a matrix that
\* holds nan either returns nan eigenvalues or raises LinAlgError itself
EigenAdjust ==
    /\ pc = "adjust"
    /\ \/ /\ adjusted' = EigenvalueAdjustment(correlation_matrix)
          /\ pc' = "cholesky_retry"
          /\ UNCHANGED error
       \/ /\ HasNaN(correlation_matrix)
          /\ pc' = "raised"
          /\ error' = "LinAlgError"
          /\ UNCHANGED adjusted
    /\ UNCHANGED <<rng, seed, assets, config, correlation_matrix, chol_calls,
                   cholesky, random_returns, volatilities, mean_mult, vol_mult,
                   regimes, asset_returns, portfolio_returns, paths, final_values,
                   metrics, percentiles, drawdowns>>
    /\ UNCHANGED <<results, poolVars, apiVars, restVars>>

\* _cholesky_decomposition, line 122: a second failure leaves the call
CholeskyRetry ==
    /\ pc = "cholesky_retry"
    /\ chol_calls' = chol_calls + 1
    /\ LET r == Cholesky(adjusted)
       IN  IF r.ok
           THEN cholesky' = r.L /\ pc' = "random" /\ error' = error
           ELSE cholesky' = cholesky /\ pc' = "raised" /\ error' = "LinAlgError"
    /\ UNCHANGED <<rng, seed, assets, config, correlation_matrix, adjusted,
                   random_returns, volatilities, mean_mult, vol_mult, regimes,
                   asset_returns, portfolio_returns, paths, final_values, metrics,
                   percentiles, drawdowns>>
    /\ UNCHANGED <<results, poolVars, apiVars, restVars>>

\* lines 269-273
GenerateRandom ==
    /\ pc = "random"
    /\ LET n == n_sims * n_days * n_assets
       IN  /\ random_returns' =
                Tensor3(n_sims, n_days, n_assets,
                        GenerateRandomReturns(rng, n, config.use_fat_tails, config.df))
           /\ rng' = RngAfter(rng, n)
    /\ pc' = IF config.use_correlation THEN "correlate" ELSE "volatility"
    /\ UNCHANGED <<seed, assets, config, correlation_matrix, adjusted, chol_calls,
                   cholesky, volatilities, mean_mult, vol_mult, regimes,
                   asset_returns, portfolio_returns, paths, final_values, metrics,
                   percentiles, drawdowns, error>>
    /\ UNCHANGED <<results, poolVars, apiVars, restVars>>

\* lines 275-277: the matrix product raises when the factor is not A x A
Correlate ==
    /\ pc = "correlate"
    /\ IF Len(cholesky) # n_assets
       THEN /\ pc' = "raised"
            /\ error' = "ValueError"
            /\ UNCHANGED random_returns
       ELSE /\ random_returns' = ApplyCorrelation(random_returns, cholesky)
            /\ pc' = "volatility"
            /\ UNCHANGED error
    /\ UNCHANGED <<rng, seed, assets, config, correlation_matrix, adjusted,
                   chol_calls, cholesky, volatilities, mean_mult, vol_mult, regimes,
                   asset_returns, portfolio_returns, paths, final_values, metrics,
                   percentiles, drawdowns>>
    /\ UNCHANGED <<results, poolVars, apiVars, restVars>>

\* lines 279-283
Volatility ==
    /\ pc = "volatility"
    /\ volatilities' =
         IF config.use_garch THEN ApplyGarch(random_returns, vols)
         ELSE [s \in 1..n_sims |-> [t \in 1..n_days |-> vols]]
    /\ pc' = "regime"
    /\ UNCHANGED <<rng, seed, assets, config, correlation_matrix, adjusted,
                   chol_calls, cholesky, random_returns, mean_mult, vol_mult, regimes,
                   asset_returns, portfolio_returns, paths, final_values, metrics,
                   percentiles, drawdowns, error>>
    /\ UNCHANGED <<results, poolVars, apiVars, restVars>>

\* lines 285-294
RegimeSwitching ==
    /\ pc = "regime"
    /\ IF config.use_regime_switching
       THEN LET n == n_sims * n_days
                r == Regimes(Tensor2(n_sims, n_days, RandomUniform(rng, n)))
            IN  /\ regimes' = r
                /\ mean_mult' = MeanMultipliers(r)
                /\ vol_mult' = VolMultipliers(r)
                /\ rng' = RngAfter(rng, n)
       ELSE /\ regimes' = [s \in 1..n_sims |-> [t \in 1..n_days |-> 1]]
            /\ mean_mult' = [s \in 1..n_sims |-> [t \in 1..n_days |-> Unit]]
            /\ vol_mult' = [s \in 1..n_sims |-> [t \in 1..n_days |-> Unit]]
            /\ UNCHANGED rng
    /\ pc' = "returns"
    /\ UNCHANGED <<seed, assets, config, correlation_matrix, adjusted, chol_calls,
                   cholesky, random_returns, volatilities, asset_returns,
                   portfolio_returns, paths, final_values, metrics, percentiles,
                   drawdowns, error>>
    /\ UNCHANGED <<results, poolVars, apiVars, restVars>>

\* line 297
CalculateAssetReturns ==
    /\ pc = "returns"
    /\ asset_returns' = AssetReturns(random_returns, volatilities, vol_mult, means, mean_mult)
    /\ pc' = IF config.use_jump_diffusion THEN "jumps" ELSE "portfolio"
    /\ UNCHANGED <<rng, seed, assets, config, correlation_matrix, adjusted,
                   chol_calls, cholesky, random_returns, volatilities, mean_mult,
                   vol_mult, regimes, portfolio_returns, paths, final_values, metrics,
                   percentiles, drawdowns, error>>
    /\ UNCHANGED <<results, poolVars, apiVars, restVars>>

\* lines 299-301: the occurrences are drawn first, then the sizes
JumpDiffusion ==
    /\ pc = "jumps"
    /\ LET n == n_sims * n_days * n_assets
           occurs == Tensor3(n_sims, n_days, n_assets, RandomUniform(rng, n))
           sizes == Tensor3(n_sims, n_days, n_assets,
                            RandomNormal(RngAfter(rng, n), jump_mean, jump_vol, n))
       IN  /\ asset_returns' = ApplyJumpDiffusion(asset_returns, occurs, sizes)
           /\ rng' = RngAfter(rng, 2 * n)
    /\ pc' = "portfolio"
    /\ UNCHANGED <<seed, assets, config, correlation_matrix, adjusted, chol_calls,
                   cholesky, random_returns, volatilities, mean_mult, vol_mult,
                   regimes, portfolio_returns, paths, final_values, metrics,
                   percentiles, drawdowns, error>>
    /\ UNCHANGED <<results, poolVars, apiVars, restVars>>

\* line 304
CalculatePortfolioReturns ==
    /\ pc = "portfolio"
    /\ portfolio_returns' = PortfolioReturns(asset_returns, weights)
    /\ pc' = "paths"
    /\ UNCHANGED <<rng, seed, assets, config, correlation_matrix, adjusted,
                   chol_calls, cholesky, random_returns, volatilities, mean_mult,
                   vol_mult, regimes, asset_returns, paths, final_values, metrics,
                   percentiles, drawdowns, error>>
    /\ UNCHANGED <<results, poolVars, apiVars, restVars>>

\* lines 306-314
CalculatePaths ==
    /\ pc = "paths"
    /\ LET p == ValuePaths(config.initial_value, portfolio_returns, n_sims, n_days)
       IN  /\ paths' = p
           /\ final_values' = FinalValues(p)
    /\ pc' = "metrics"
    /\ UNCHANGED <<rng, seed, assets, config, correlation_matrix, adjusted,
                   chol_calls, cholesky, random_returns, volatilities, mean_mult,
                   vol_mult, regimes, asset_returns, portfolio_returns, metrics,
                   percentiles, drawdowns, error>>
    /\ UNCHANGED <<results, poolVars, apiVars, restVars>>

\* lines 316-318
Metrics ==
    /\ pc = "metrics"
    /\ metrics' = CalculateMetrics(SimpleReturns(final_values, config.initial_value),
                                   Len(paths[1]), config.initial_value)
    /\ pc' = "percentiles"
    /\ UNCHANGED <<rng, seed, assets, config, correlation_matrix, adjusted,
                   chol_calls, cholesky, random_returns, volatilities, mean_mult,
                   vol_mult, regimes, asset_returns, portfolio_returns, paths,
                   final_values, percentiles, drawdowns, error>>
    /\ UNCHANGED <<results, poolVars, apiVars, restVars>>

\* lines 320-321
Percentiles ==
    /\ pc = "percentiles"
    /\ percentiles' = CalculatePercentiles(final_values)
    /\ pc' = "drawdowns"
    /\ UNCHANGED <<rng, seed, assets, config, correlation_matrix, adjusted,
                   chol_calls, cholesky, random_returns, volatilities, mean_mult,
                   vol_mult, regimes, asset_returns, portfolio_returns, paths,
                   final_values, metrics, drawdowns, error>>
    /\ UNCHANGED <<results, poolVars, apiVars, restVars>>

\* lines 323-332: the result is returned
Drawdowns ==
    /\ pc = "drawdowns"
    /\ drawdowns' = CalculateDrawdowns(paths)
    /\ pc' = "done"
    /\ UNCHANGED <<rng, seed, assets, config, correlation_matrix, adjusted,
                   chol_calls, cholesky, random_returns, volatilities, mean_mult,
                   vol_mult, regimes, asset_returns, portfolio_returns, paths,
                   final_values, metrics, percentiles, error>>
    /\ UNCHANGED <<results, poolVars, apiVars, restVars>>

RunSimulation ==
    \/ Begin
    \/ CholeskyFirst
    \/ EigenAdjust
    \/ CholeskyRetry
    \/ GenerateRandom
    \/ Correlate
    \/ Volatility
    \/ RegimeSwitching
    \/ CalculateAssetReturns
    \/ JumpDiffusion
    \/ CalculatePortfolioReturns
    \/ CalculatePaths
    \/ Metrics
    \/ Percentiles
    \/ Drawdowns

Next == Construct \/ RunSimulation

Spec == Init /\ [][Next]_vars

\* ------------------------------------------------------------------------
\* Properties of one engine call (Spec)
\* ------------------------------------------------------------------------

\* C1 as the specification states it: whatever the options, every entry of
\* every path the integrator produces is strictly positive.
C1_PathsPositive ==
    paths # None =>
        \A s \in 1..Len(paths) : \A c \in 1..Len(paths[s]) : paths[s][c] > 0

\* C2: the path array has one row per simulation and time_horizon + 1
\* columns, its first column is the initial value on every row, and the
\* final value of a row is its last column.
C2_PathShape ==
    paths # None =>
        /\ Len(paths) = n_sims
        /\ \A s \in 1..n_sims :
            /\ Len(paths[s]) = n_days + 1
            /\ paths[s][1] = config.initial_value
        /\ final_values # None =>
            /\ Len(final_values) = n_sims
            /\ \A s \in 1..n_sims : final_values[s] = paths[s][n_days + 1]

\* a finished call over the long horizon whose paths moved off the start
C2_Witness ==
    /\ pc = "done"
    /\ n_days = Horizon
    /\ final_values # None
    /\ \E s \in 1..n_sims : final_values[s] # config.initial_value
    /\ \E s \in 1..n_sims : paths[s][2] # paths[s][n_days + 1]

AllFinite(r) == \A k \in DOMAIN r : IsFinite(r[k])

\* C3 as the specification states it: a call that returns hands back no
\* nan and no infinity, in the final values, the percentiles, the metrics
\* or the drawdown statistics.
C3_OutputsFinite ==
    pc = "done" =>
        /\ \A s \in 1..Len(final_values) : IsFinite(final_values[s])
        /\ AllFinite(metrics)
        /\ AllFinite(percentiles)
        /\ AllFinite(drawdowns)

\* the matrix the caller supplied is not n_assets x n_assets, or not symmetric
MalformedMatrix ==
    /\ correlation_matrix # None
    /\ ~(IsSquare(correlation_matrix, n_assets) /\ IsSymmetric(correlation_matrix))

\* C8 as the specification states it: a supplied matrix of the wrong shape
\* or without symmetry is never factorised and never reaches the shock
\* generation; the call ends in a validation error.
C8_MalformedMatrixRejected ==
    (pc # "init" /\ pc # "idle" /\ MalformedMatrix) =>
        /\ chol_calls = 0
        /\ random_returns = None
        /\ error = "ValidationError"

NoResult ==
    /\ paths = None
    /\ final_values = None
    /\ metrics = None
    /\ percentiles = None
    /\ drawdowns = None

\* C9: the factorisation is tried on the matrix as given; only after that
\* attempt failed are the eigenvalues put at 1e-8 or above and the matrix
\* reassembled, and the factorisation is tried a second and last time on
\* the reassembled matrix; if that fails too the call ends with
\* LinAlgError and returns nothing.
C9_FactorisationFallback ==
    /\ chol_calls \in 0..2
    /\ chol_calls = 0 => (cholesky = None /\ adjusted = None)
    /\ chol_calls >= 1 =>
        LET first == Cholesky(correlation_matrix)
        IN  /\ first.ok =>
                /\ chol_calls = 1
                /\ adjusted = None
                /\ error # "LinAlgError"
                /\ cholesky = first.L
            /\ ~first.ok =>
                /\ adjusted # None =>
                    /\ Len(adjusted) = Len(correlation_matrix)
                    /\ \/ HasNaN(correlation_matrix)
                       \/ \A i \in 1..Len(adjusted) : Eigenvalues(adjusted)[i] >= Eps
                /\ chol_calls = 2 => adjusted # None
                /\ chol_calls = 1 => cholesky = None
                /\ chol_calls = 2 =>
                    LET second == Cholesky(adjusted)
                    IN  /\ second.ok => (cholesky = second.L /\ error # "LinAlgError")
                        /\ ~second.ok =>
                            (cholesky = None /\ pc = "raised" /\ error = "LinAlgError")
    /\ error = "LinAlgError" =>
        /\ pc = "raised"
        /\ chol_calls >= 1
        /\ cholesky = None
        /\ NoResult

\* the first attempt failed, the clamped matrix was factorised and the
\* call went on to its end
C9_Witness ==
    /\ pc = "done"
    /\ chol_calls = 2
    /\ adjusted # None
    /\ Eigenvalues(correlation_matrix)[1] < 0
    /\ Eigenvalues(adjusted)[1] = Eps

\* ------------------------------------------------------------------------
\* The statistics of run_simulation on arbitrary path arrays (StatsSpec)
\* ------------------------------------------------------------------------

\* the largest number of simulated paths in an array
MaxPaths == 3

\* values a path takes after its start, some off the cent grid, one negative
PathGrid == {0 - 250000, 500000, 1004000, 1500000}

\* arrays of 1..MaxPaths paths over two steps that start at one unit
PathArrays ==
    UNION { [1..n -> {<<Unit, a, b>> : a \in PathGrid, b \in PathGrid}] : n \in 1..MaxPaths }

StatsConfig(array) ==
    [initial_value |-> Unit, time_horizon |-> Len(array[1]) - 1,
     num_simulations |-> Len(array), use_correlation |-> FALSE,
     use_fat_tails |-> FALSE, use_garch |-> FALSE,
     use_regime_switching |-> FALSE, use_jump_diffusion |-> FALSE, df |-> 5]

\* run_simulation at line 314, with any path array in place of the integrated one
StatsInit ==
    /\ pc = "metrics"
    /\ paths \in PathArrays
    /\ final_values = FinalValues(paths)
    /\ config = StatsConfig(paths)
    /\ assets = <<Asset("SPY", Unit, 0, 0)>>
    /\ rng = 0
    /\ seed = NoSeed
    /\ correlation_matrix = None
    /\ adjusted = None
    /\ chol_calls = 0
    /\ cholesky = None
    /\ random_returns = None
    /\ volatilities = None
    /\ mean_mult = None
    /\ vol_mult = None
    /\ regimes = None
    /\ asset_returns = None
    /\ portfolio_returns = None
    /\ metrics = None
    /\ percentiles = None
    /\ drawdowns = None
    /\ error = None
    /\ results = <<>>
    /\ PoolIdle
    /\ ApiIdle
    /\ RestIdle

StatsNext == Metrics \/ Percentiles \/ Drawdowns

StatsSpec == StatsInit /\ [][StatsNext]_vars

\* C10 as the specification states it: p50 is the median of the final values.
C10_MedianExact ==
    percentiles # None => percentiles.p50 = Median(final_values)

\* C10: the reported percentiles are ordered, min <= p5 <= p10 <= p25 <= p50
\* <= p75 <= p90 <= p95 <= max, and p50 is the median of the final values
\* rounded to two decimals.
C10_PercentilesOrdered ==
    percentiles # None =>
        /\ percentiles.min <= percentiles.p5
        /\ percentiles.p5 <= percentiles.p10
        /\ percentiles.p10 <= percentiles.p25
        /\ percentiles.p25 <= percentiles.p50
        /\ percentiles.p50 <= percentiles.p75
        /\ percentiles.p75 <= percentiles.p90
        /\ percentiles.p90 <= percentiles.p95
        /\ percentiles.p95 <= percentiles.max
        /\ percentiles.p50 = Round(Median(final_values), 2)

\* percentiles of three distinct final values whose median is off the cent grid
C10_Witness ==
    /\ percentiles # None
    /\ Len(final_values) = MaxPaths
    /\ percentiles.min < percentiles.p50
    /\ percentiles.p50 < percentiles.max
    /\ percentiles.p50 # Median(final_values)

\* ------------------------------------------------------------------------
\* Repeated simulations with one seed (SeedSpec)
\* ------------------------------------------------------------------------

\* the number of simulations run one after the other
MaxCalls == 2

\* SimulationResult, as far as it depends on the draws
Result ==
    [paths |-> paths, final_values |-> final_values, metrics |-> metrics,
     percentiles |-> percentiles, drawdowns |-> drawdowns]

\* the locals of the next call, nothing computed yet
FreshLocals ==
    /\ adjusted' = None
    /\ chol_calls' = 0
    /\ cholesky' = None
    /\ random_returns' = None
    /\ volatilities' = None
    /\ mean_mult' = None
    /\ vol_mult' = None
    /\ regimes' = None
    /\ asset_returns' = None
    /\ portfolio_returns' = None
    /\ paths' = None
    /\ final_values' = None
    /\ metrics' = None
    /\ percentiles' = None
    /\ drawdowns' = None
    /\ error' = None

\* run_simulation is called again on the engine that is already constructed,
\* with the arguments of the first call: __init__ (lines 66-69) does not run
\* again, and run_simulation (lines 236-332) does not touch the seed
CallAgain ==
    /\ pc = "done"
    /\ Len(results) + 1 < MaxCalls
    /\ results' = Append(results, Result)
    /\ pc' = "idle"
    /\ FreshLocals
    /\ UNCHANGED <<rng, seed, assets, config, correlation_matrix>>
    /\ UNCHANGED <<poolVars, apiVars, restVars>>

\* a new MonteCarloEngine(seed) is constructed for the next call
ConstructAgain ==
    /\ pc = "done"
    /\ Len(results) + 1 < MaxCalls
    /\ results' = Append(results, Result)
    /\ pc' = "init"
    /\ FreshLocals
    /\ UNCHANGED <<rng, seed, assets, config, correlation_matrix>>
    /\ UNCHANGED <<poolVars, apiVars, restVars>>

SeedInit ==
    /\ Init
    /\ config.initial_value = Unit
    /\ config.time_horizon = Horizon

SeedNext == Construct \/ RunSimulation \/ CallAgain \/ ConstructAgain

SeedSpec == SeedInit /\ [][SeedNext]_vars

\* C4 as the specification states it: with a seed, a simulation run again
\* with the same assets, configuration and correlation returns what the
\* first run returned.
C4_SameSeedSameOutputs ==
    (seed # NoSeed /\ pc = "done" /\ results # <<>>) => Result = results[1]

\* ------------------------------------------------------------------------
\* The thread-pool engine, backend/app/services/monte_carlo.py (PoolSpec)
\* ------------------------------------------------------------------------

\* calls of run_simulation that are submitted to _executor
NumRequests == 2

\* config.num_simulations of each call
PoolSims == 1

\* ThreadPoolExecutor(max_workers=2)
max_workers == 2

\* SimulationConfig defaults
dividend_yield == 20000
jump_probability == 50000
config_jump_mean == 0 - 100000
jump_std == 150000

\* config.time_horizon of each call, in years
years == 1

\* the arguments of every call
expected_return == 7 * 10000
volatility == 15 * 10000

\* line 39
months == years * 12

\* shocks drawn by one call: the entries of a (num_sims, months) array
PoolDraws == PoolSims * months

\* np.exp on one value, by its power series
RECURSIVE ExpSeries(_, _, _)
ExpSeries(x, term, k) ==
    IF term = 0 \/ k > 12 THEN 0
    ELSE term + ExpSeries(x, Sgn(term) * Sgn(x) * (MulMag(Half, Abs(term), Abs(x)) \div k), k + 1)

Exp(x) == ExpSeries(x, Unit, 1)

\* lines 50-52
monthly_vol == Div(volatility, Sqrt(months * Unit))
monthly_drift == DivInt(expected_return - Mul(Unit \div 2, Mul(volatility, volatility)), months)
monthly_div == DivInt(dividend_yield, months)

\* np.random.binomial(1, p, size = n), drawn from state s
RandomBinomial(s, p, n) ==
    LET u == RandomUniform(s, n) IN [i \in 1..n |-> IF u[i] < p THEN 1 ELSE 0]

\* lines 59-65
LogReturns(random_shocks, jumps, jump_sizes) ==
    [i \in 1..Len(random_shocks) |->
        (monthly_drift + monthly_div) + Mul(monthly_vol, random_shocks[i])
        + (IF jumps = None THEN 0 ELSE jumps[i] * jump_sizes[i])]

\* lines 68-69 on one path, monthly_contribution being 0
RECURSIVE PoolPath(_, _, _)
PoolPath(initial_investment, log_returns, t) ==
    IF t = 0 THEN initial_investment
    ELSE Mul(PoolPath(initial_investment, log_returns, t - 1), Exp(log_returns[t]))

\* a call waiting in the queue of _executor
Task(include_jump_diffusion) ==
    [at |-> "queued", include_jump_diffusion |-> include_jump_diffusion,
     seeded |-> None, random_shocks |-> None, jumps |-> None,
     jump_sizes |-> None, final_values |-> None]

Running(i) == pool[i].at \notin {"queued", "returned"}

\* a worker thread of _executor takes the call: lines 38-52
Start(i) ==
    /\ pool[i].at = "queued"
    /\ Cardinality({j \in DOMAIN pool : Running(j)}) < max_workers
    /\ pool' = [pool EXCEPT ![i].at = "seed"]
    /\ UNCHANGED <<engineVars, results, apiVars, restVars>>

\* line 55: np.random.seed() puts the process-wide generator in a state
\* taken from the operating system
Seed(i) ==
    /\ pool[i].at = "seed"
    /\ \E e \in EntropyStates :
        /\ rng' = e
        /\ pool' = [pool EXCEPT ![i].at = "shocks", ![i].seeded = e]
    /\ UNCHANGED <<pc, seed, assets, config, correlation_matrix, adjusted,
                   chol_calls, cholesky, random_returns, volatilities, mean_mult,
                   vol_mult, regimes, asset_returns, portfolio_returns, paths,
                   final_values, metrics, percentiles, drawdowns, error>>
    /\ UNCHANGED <<results, apiVars, restVars>>

\* line 56: np.random.normal(0, 1, (num_sims, months))
Shocks(i) ==
    /\ pool[i].at = "shocks"
    /\ pool' = [pool EXCEPT
            ![i].random_shocks = RandomNormal(rng, 0, Unit, PoolDraws),
            ![i].at = IF pool[i].include_jump_diffusion THEN "binomial" ELSE "paths"]
    /\ rng' = RngAfter(rng, PoolDraws)
    /\ UNCHANGED <<pc, seed, assets, config, correlation_matrix, adjusted,
                   chol_calls, cholesky, random_returns, volatilities, mean_mult,
                   vol_mult, regimes, asset_returns, portfolio_returns, paths,
                   final_values, metrics, percentiles, drawdowns, error>>
    /\ UNCHANGED <<results, apiVars, restVars>>

\* line 63: np.random.binomial(1, config.jump_probability, (num_sims, months))
Binomial(i) ==
    /\ pool[i].at = "binomial"
    /\ pool' = [pool EXCEPT
            ![i].jumps = RandomBinomial(rng, jump_probability, PoolDraws),
            ![i].at = "jump_sizes"]
    /\ rng' = RngAfter(rng, PoolDraws)
    /\ UNCHANGED <<pc, seed, assets, config, correlation_matrix, adjusted,
                   chol_calls, cholesky, random_returns, volatilities, mean_mult,
                   vol_mult, regimes, asset_returns, portfolio_returns, paths,
                   final_values, metrics, percentiles, drawdowns, error>>
    /\ UNCHANGED <<results, apiVars, restVars>>

\* line 64: np.random.normal(config.jump_mean, config.jump_std, (num_sims, months))
JumpSizes(i) ==
    /\ pool[i].at = "jump_sizes"
    /\ pool' = [pool EXCEPT
            ![i].jump_sizes = RandomNormal(rng, config_jump_mean, jump_std, PoolDraws),
            ![i].at = "paths"]
    /\ rng' = RngAfter(rng, PoolDraws)
    /\ UNCHANGED <<pc, seed, assets, config, correlation_matrix, adjusted,
                   chol_calls, cholesky, random_returns, volatilities, mean_mult,
                   vol_mult, regimes, asset_returns, portfolio_returns, paths,
                   final_values, metrics, percentiles, drawdowns, error>>
    /\ UNCHANGED <<results, apiVars, restVars>>

\* lines 59-155: the paths and what is returned of them
SimulatePaths(i) ==
    /\ pool[i].at = "paths"
    /\ LET t == pool[i]
           log_returns == Tensor2(PoolSims, months,
                                  LogReturns(t.random_shocks, t.jumps, t.jump_sizes))
       IN  pool' = [pool EXCEPT
               ![i].final_values = [s \in 1..PoolSims |-> PoolPath(Unit, log_returns[s], months)],
               ![i].at = "returned"]
    /\ UNCHANGED <<engineVars, results, apiVars, restVars>>

PoolInit ==
    /\ pool \in [1..NumRequests -> {Task(jd) : jd \in BOOLEAN}]
    /\ rng \in EntropyStates
    /\ pc = "init"
    /\ seed = NoSeed
    /\ assets = <<Asset("SPY", Unit, 0, 0)>>
    /\ config = StatsConfig(<< <<Unit, Unit>> >>)
    /\ correlation_matrix = None
    /\ NoLocals
    /\ results = <<>>
    /\ ApiIdle
    /\ RestIdle

PoolNext ==
    \E i \in 1..NumRequests :
        Start(i) \/ Seed(i) \/ Shocks(i) \/ Binomial(i) \/ JumpSizes(i) \/ SimulatePaths(i)

PoolSpec == PoolInit /\ [][PoolNext]_vars

\* C5 as the specification states it: the draws of a call are the stream
\* its own reseeding started, whatever the other calls in the pool do in
\* the meantime.
C5_StreamsNotShared ==
    \A i \in DOMAIN pool :
        LET t == pool[i]
        IN  /\ t.random_shocks # None =>
                t.random_shocks = RandomNormal(t.seeded, 0, Unit, PoolDraws)
            /\ t.jumps # None =>
                t.jumps = RandomBinomial(RngAfter(t.seeded, PoolDraws),
                                         jump_probability, PoolDraws)
            /\ t.jump_sizes # None =>
                t.jump_sizes = RandomNormal(RngAfter(t.seeded, 2 * PoolDraws),
                                            config_jump_mean, jump_std, PoolDraws)

\* ------------------------------------------------------------------------
\* The entry points of api/simulation.py (ApiSpec)
\* ------------------------------------------------------------------------

\* Field(..., min_length=1, max_length=20)
min_length == 1
max_length == 20

\* timeHorizon: Field(252, ge=1, le=2520)
timeHorizon_ge == 1
timeHorizon_le == 2520

\* numSimulations: Field(1000, ge=100, le=10000)
numSimulations_ge == 100
numSimulations_le == 10000

\* abs(total_weight - 1.0) > 0.01
weight_tolerance == 10000

\* min(request.numSimulations, 500)
quick_simulations == 500

\* AssetInput; provided tells whether meanReturn and volatility came with it
AssetInput(ticker, weight, provided) ==
    [ticker |-> ticker, weight |-> weight, provided |-> provided]

\* n assets of equal weight 1/max_length
EqualWeights(n) == [i \in 1..n |-> AssetInput("T", Unit \div max_length, TRUE)]

Portfolios ==
    { <<>>,
      <<AssetInput("SPY", Unit, TRUE)>>,
      <<AssetInput("SPY", Unit + Unit \div 2, TRUE)>>,
      <<AssetInput("SPY", 600000, FALSE), AssetInput("BND", 400000, FALSE)>>,
      <<AssetInput("SPY", 600000, FALSE), AssetInput("BND", 410000, TRUE)>>,
      <<AssetInput("SPY", 600000, TRUE), AssetInput("BND", 420000, FALSE)>>,
      <<AssetInput("SPY", 500000, TRUE), AssetInput("BND", 490000, TRUE)>>,
      <<AssetInput("SPY", 500000, FALSE), AssetInput("BND", 480000, FALSE)>>,
      EqualWeights(max_length),
      EqualWeights(max_length) \o <<AssetInput("Z", 0, TRUE)>> }

EntryPoints == {"run", "quick", "goal-probability", "run_simulation"}

\* what a client sends to /run, /quick or /goal-probability, or passes to
\* MonteCarloEngine.run_simulation when it calls the engine itself;
\* targetValue is 0 where the entry point has no such field
Requests ==
    { r \in [endpoint : EntryPoints,
             portfolio : Portfolios,
             initialValue : {0, Unit},
             targetValue : {0, Unit, 2 * Unit},
             timeHorizon : {0, 252, 2521},
             numSimulations : {99, 100, 1000, 10001}] :
        (r.targetValue # 0) <=> (r.endpoint = "goal-probability") }

total_weight(portfolio) == SumSeq([i \in 1..Len(portfolio) |-> portfolio[i].weight])

\* the check of lines 141-142 and 192-193 without the absolute value
WeightsOffAbove(portfolio) == total_weight(portfolio) - Unit > weight_tolerance

\* lines 141-142 and 192-193
WeightsOff(portfolio) == Abs(total_weight(portfolio) - Unit) > weight_tolerance

\* AssetInput.weight: Field(..., ge=0, le=1)
WeightsInRange(portfolio) ==
    \A i \in 1..Len(portfolio) : portfolio[i].weight >= 0 /\ portfolio[i].weight <= Unit

\* the fields SimulationRequest and GoalProbabilityRequest share
FieldsValid(r) ==
    /\ WeightsInRange(r.portfolio)
    /\ r.initialValue > 0
    /\ r.timeHorizon >= timeHorizon_ge /\ r.timeHorizon <= timeHorizon_le
    /\ r.numSimulations >= numSimulations_ge /\ r.numSimulations <= numSimulations_le

\* SimulationRequest, lines 36-51
SimulationRequestValid(r) ==
    /\ FieldsValid(r)
    /\ Len(r.portfolio) >= min_length /\ Len(r.portfolio) <= max_length

\* GoalProbabilityRequest, lines 54-60: the portfolio has no length limits
GoalProbabilityRequestValid(r) ==
    /\ FieldsValid(r)
    /\ r.targetValue > 0

\* whether a callable can be sent to a process of a ProcessPoolExecutor: a
\* function defined inside another function cannot be pickled
Picklable(callable) == callable # "run_simulation_async.<locals>.run"

HTTP(status, detail) == [status |-> status, detail |-> detail]

EngineCall(r) ==
    [n_assets |-> Len(r.portfolio), num_simulations |-> r.numSimulations,
     time_horizon |-> r.timeHorizon, initial_value |-> r.initialValue]

\* the framework parses the body into the request model of the endpoint
ParseRequest ==
    /\ api_pc = "received"
    /\ request.endpoint # "run_simulation"
    /\ LET valid == IF request.endpoint = "goal-probability"
                    THEN GoalProbabilityRequestValid(request)
                    ELSE SimulationRequestValid(request)
       IN  IF valid
           THEN /\ api_pc' = IF request.endpoint = "quick" THEN "quick" ELSE "weights"
                /\ UNCHANGED response
           ELSE /\ api_pc' = "responded"
                /\ response' = HTTP(422, "request model")
    /\ UNCHANGED <<request, fetched, corr_fetched, engine_calls>>
    /\ UNCHANGED <<engineVars, results, poolVars, restVars>>

\* quick_simulation, lines 270-273
QuickSimulation ==
    /\ api_pc = "quick"
    /\ request' = [request EXCEPT
            !.numSimulations = Min2(request.numSimulations, quick_simulations)]
    /\ api_pc' = "weights"
    /\ UNCHANGED <<response, fetched, corr_fetched, engine_calls>>
    /\ UNCHANGED <<engineVars, results, poolVars, restVars>>

\* lines 140-146 of run_simulation, 191-197 of calculate_goal_probability
CheckWeights ==
    /\ api_pc = "weights"
    /\ IF WeightsOff(request.portfolio)
       THEN /\ api_pc' = "responded"
            /\ response' = HTTP(400, "weights")
       ELSE /\ api_pc' = IF request.endpoint = "goal-probability" THEN "target" ELSE "fetch"
            /\ UNCHANGED response
    /\ UNCHANGED <<request, fetched, corr_fetched, engine_calls>>
    /\ UNCHANGED <<engineVars, results, poolVars, restVars>>

\* lines 199-203 of calculate_goal_probability
CheckTarget ==
    /\ api_pc = "target"
    /\ IF request.targetValue <= request.initialValue
       THEN /\ api_pc' = "responded"
            /\ response' = HTTP(400, "target")
       ELSE /\ api_pc' = "fetch"
            /\ UNCHANGED response
    /\ UNCHANGED <<request, fetched, corr_fetched, engine_calls>>
    /\ UNCHANGED <<engineVars, results, poolVars, restVars>>

\* fetch_asset_parameters: one calculate_statistics call for every asset that
\* came without its parameters
FetchAssetParameters ==
    /\ api_pc = "fetch"
    /\ fetched' = fetched
            + Len(SelectSeq(request.portfolio, LAMBDA a : ~a.provided))
    /\ api_pc' = IF request.endpoint = "goal-probability" THEN "engine" ELSE "correlation"
    /\ UNCHANGED <<request, response, corr_fetched, engine_calls>>
    /\ UNCHANGED <<engineVars, results, poolVars, restVars>>

\* lines 165-167 of run_simulation
FetchCorrelation ==
    /\ api_pc = "correlation"
    /\ corr_fetched' = corr_fetched + 1
    /\ api_pc' = "offload"
    /\ UNCHANGED <<request, response, fetched, engine_calls>>
    /\ UNCHANGED <<engineVars, results, poolVars, restVars>>

\* line 170 of run_simulation with run_simulation_async, lines 501-503: the
\* nested function run goes to a ProcessPoolExecutor; what the submission
\* raises is answered with status 500 (lines 174-178)
Offload ==
    /\ api_pc = "offload"
    /\ IF Picklable("run_simulation_async.<locals>.run")
       THEN /\ engine_calls' = Append(engine_calls, EngineCall(request))
            /\ response' = HTTP(200, "result")
       ELSE /\ response' = HTTP(500, "Simulation failed")
            /\ UNCHANGED engine_calls
    /\ api_pc' = "responded"
    /\ UNCHANGED <<request, fetched, corr_fetched>>
    /\ UNCHANGED <<engineVars, results, poolVars, restVars>>

\* lines 218-253 of calculate_goal_probability: the engine runs on a thread
\* of the default executor
GoalEngine ==
    /\ api_pc = "engine"
    /\ engine_calls' = Append(engine_calls, EngineCall(request))
    /\ response' = HTTP(200, "goal")
    /\ api_pc' = "responded"
    /\ UNCHANGED <<request, fetched, corr_fetched>>
    /\ UNCHANGED <<engineVars, results, poolVars, restVars>>

\* a caller of MonteCarloEngine.run_simulation itself: lines 253-270 read the
\* arguments and draw the shocks without a check of any argument
DirectCall ==
    /\ api_pc = "received"
    /\ request.endpoint = "run_simulation"
    /\ engine_calls' = Append(engine_calls, EngineCall(request))
    /\ api_pc' = "engine running"
    /\ UNCHANGED <<request, response, fetched, corr_fetched>>
    /\ UNCHANGED <<engineVars, results, poolVars, restVars>>

ApiInit ==
    /\ request \in Requests
    /\ api_pc = "received"
    /\ response = None
    /\ fetched = 0
    /\ corr_fetched = 0
    /\ engine_calls = <<>>
    /\ pc = "init"
    /\ rng = 0
    /\ seed = NoSeed
    /\ assets = <<Asset("SPY", Unit, 0, 0)>>
    /\ config = StatsConfig(<< <<Unit, Unit>> >>)
    /\ correlation_matrix = None
    /\ NoLocals
    /\ results = <<>>
    /\ PoolIdle
    /\ RestIdle

ApiNext ==
    \/ ParseRequest
    \/ QuickSimulation
    \/ CheckWeights
    \/ CheckTarget
    \/ FetchAssetParameters
    \/ FetchCorrelation
    \/ Offload
    \/ GoalEngine
    \/ DirectCall

ApiSpec == ApiInit /\ [][ApiNext]_vars

NoWorkDone ==
    /\ fetched = 0
    /\ corr_fetched = 0
    /\ engine_calls = <<>>

OutOfRange(r) ==
    \/ Len(r.portfolio) < 1 \/ Len(r.portfolio) > 20
    \/ r.numSimulations < 100 \/ r.numSimulations > 10000
    \/ r.timeHorizon < 1 \/ r.timeHorizon > 2520
    \/ r.initialValue <= 0

\* C7 as the specification states it: on every entry point a request with
\* A outside [1, 20], S outside [100, 10000], T outside [1, 2520] or
\* V0 <= 0 is answered with a validation error before any simulation work.
C7_OutOfRangeRejected ==
    OutOfRange(request) =>
        /\ NoWorkDone
        /\ api_pc # "engine running"
        /\ response # None => response.status \in {400, 422}

\* ------------------------------------------------------------------------
\* Drawdowns of the paths of one engine call (Spec)
\* ------------------------------------------------------------------------

\* C11 as the specification states it: the maximum drawdown of every path
\* run_simulation produces lies between -1 and 0, and every drawdown
\* aggregate it reports lies between -100 and 0 percent.
C11_DrawdownsBounded ==
    /\ paths # None =>
        \A s \in 1..Len(paths) :
            /\ MaxDrawdowns(paths)[s] <= 0
            /\ MaxDrawdowns(paths)[s] >= 0 - Unit
    /\ drawdowns # None =>
        \A k \in DOMAIN drawdowns :
            drawdowns[k] <= 0 /\ drawdowns[k] >= 0 - 100 * Unit

\* ------------------------------------------------------------------------
\* calculate_goal_probability on the result of a simulation (GoalSpec)
\* ------------------------------------------------------------------------

\* crossing_day = None
NoDay == 0 - 1

\* column c of a paths array: paths[:, c - 1]
Column(array, c) == [s \in 1..Len(array) |-> array[s][c]]

\* the number of final values at or below the target
SuccessCountBelow(values, target_value) ==
    Len(SelectSeq(values, LAMBDA v : v <= target_value))

\* line 415: np.sum(result.final_values >= target_value)
SuccessCount(values, target_value) ==
    Len(SelectSeq(values, LAMBDA v : v >= target_value))

\* the lowest path value of every day
MinimumPath(array) ==
    [c \in 1..Len(array[1]) |-> MinSeq(Column(array, c))]

\* line 419: np.percentile(result.paths, 50, axis=0)
MedianPath(array) ==
    [c \in 1..Len(array[1]) |-> Percentile(Column(array, c), 50)]

\* the last day on which the median path is at or above the target
RECURSIVE LastCrossing(_, _, _)
LastCrossing(median_path, target_value, c) ==
    IF c = 0 THEN NoDay
    ELSE IF median_path[c] >= target_value THEN c - 1
    ELSE LastCrossing(median_path, target_value, c - 1)

CrossingDayLast(median_path, target_value) ==
    LastCrossing(median_path, target_value, Len(median_path))

\* lines 420-424: the loop over enumerate(median_path), from position c on
RECURSIVE FirstCrossing(_, _, _)
FirstCrossing(median_path, target_value, c) ==
    IF c > Len(median_path) THEN NoDay
    ELSE IF median_path[c] >= target_value THEN c - 1
    ELSE FirstCrossing(median_path, target_value, c + 1)

CrossingDay(median_path, target_value) == FirstCrossing(median_path, target_value, 1)

\* calculate_goal_probability
CalculateGoalProbability(result, target_value) ==
    LET success_count == SuccessCount(result.final_values, target_value)
        probability == DivInt(success_count * Unit, Len(result.final_values)) * 100
    IN  [probability |-> Round(probability, 1),
         successCount |-> success_count,
         totalSimulations |-> Len(result.final_values),
         medianCrossingDay |-> CrossingDay(MedianPath(result.paths), target_value),
         targetValue |-> target_value]

\* values a path of a result takes after its start
GoalGrid == {500000, 1200000, 2 * Unit}

\* results of 1..MaxPaths paths over two steps that start at one unit
GoalArrays ==
    UNION { [1..n -> {<<Unit, a, b>> : a \in GoalGrid, b \in GoalGrid}] : n \in 1..MaxPaths }

\* the targets asked for
Targets == {Unit \div 2, Unit, 1200000, 1500000, 2 * Unit + Unit \div 2}

\* a SimulationResult at hand, whose paths are any array
GoalInit ==
    /\ pc = "done"
    /\ paths \in GoalArrays
    /\ final_values = FinalValues(paths)
    /\ config = StatsConfig(paths)
    /\ assets = <<Asset("SPY", Unit, 0, 0)>>
    /\ rng = 0
    /\ seed = NoSeed
    /\ correlation_matrix = None
    /\ adjusted = None
    /\ chol_calls = 0
    /\ cholesky = None
    /\ random_returns = None
    /\ volatilities = None
    /\ mean_mult = None
    /\ vol_mult = None
    /\ regimes = None
    /\ asset_returns = None
    /\ portfolio_returns = None
    /\ metrics = None
    /\ percentiles = None
    /\ drawdowns = None
    /\ error = None
    /\ results = <<>>
    /\ PoolIdle
    /\ ApiIdle
    /\ RestIdle

\* engine.calculate_goal_probability(result, target_value), asked at most
\* twice of one result
GoalProbability ==
    /\ pc = "done"
    /\ Len(goals) < 1 + 1
    /\ \E target_value \in Targets :
        /\ goal_targets' = Append(goal_targets, target_value)
        /\ goals' = Append(goals, CalculateGoalProbability(Result, target_value))
    /\ UNCHANGED <<engineVars, results, poolVars, apiVars, asyncVars, usageVars, laterVars>>

GoalNext == GoalProbability

GoalSpec == GoalInit /\ [][GoalNext]_vars

\* the days on which the median over all paths is at or above the target
DaysAtTarget(g) ==
    {t \in 0..n_days : Median(Column(paths, t + 1)) >= goal_targets[g]}

\* C12 as the specification states it: the probability is 100 * successCount / S.
C12_ProbabilityExact ==
    \A g \in 1..Len(goals) :
        goals[g].probability * n_sims = 100 * goals[g].successCount * Unit

\* C12: successCount is the number of paths whose final value is at or above
\* the target and lies in 0..S, totalSimulations is S, the target is handed
\* back unchanged, medianCrossingDay is the smallest step in 0..T at which
\* the median over all paths is at or above the target (none: null), and
\* probability is 100 * successCount / S rounded to one decimal.
C12_GoalProbability ==
    \A g \in 1..Len(goals) :
        LET count == Cardinality({s \in 1..n_sims : final_values[s] >= goal_targets[g]})
        IN  /\ goals[g].successCount = count
            /\ goals[g].successCount >= 0
            /\ goals[g].successCount <= goals[g].totalSimulations
            /\ goals[g].totalSimulations = n_sims
            /\ goals[g].targetValue = goal_targets[g]
            /\ goals[g].probability = Round(DivInt(100 * count * Unit, n_sims), 1)
            /\ IF DaysAtTarget(g) = {}
               THEN goals[g].medianCrossingDay = NoDay
               ELSE /\ goals[g].medianCrossingDay \in DaysAtTarget(g)
                    /\ \A t \in DaysAtTarget(g) : goals[g].medianCrossingDay <= t

\* the median path is at the target on the first and on the last day only,
\* and two paths out of three end at the target
C12_Witness ==
    /\ n_sims = 3
    /\ goals # <<>>
    /\ goals[1].medianCrossingDay = 0
    /\ DaysAtTarget(1) = {0, n_days}
    /\ goals[1].successCount = 2
    /\ goals[1].probability = 66700000

\* C13: of two targets asked of one result, the lower one gets at least
\* the probability and at least the success count of the higher one.
C13_MonotoneInTarget ==
    \A g \in 1..Len(goals) : \A h \in 1..Len(goals) :
        goal_targets[g] <= goal_targets[h] =>
            /\ goals[g].probability >= goals[h].probability
            /\ goals[g].successCount >= goals[h].successCount

\* two targets of which the higher is reached by fewer paths
C13_Witness ==
    /\ Len(goals) = 2
    /\ goal_targets[1] < goal_targets[2]
    /\ goals[1].successCount > goals[2].successCount
    /\ goals[2].successCount > 0
    /\ goals[1].probability > goals[2].probability

\* ------------------------------------------------------------------------
\* The Sharpe ratio of one engine call (Spec)
\* ------------------------------------------------------------------------

\* C14 as the specification states it: the Sharpe ratio reported (to three
\* decimals) is (mean - rf_scaled) / stdev of the simple returns with
\* rf_scaled = 0.04/252 times the time horizon T, and 0 when the standard
\* deviation is 0.
C14_SharpeScaledByHorizon ==
    metrics # None =>
        LET returns == SimpleReturns(final_values, config.initial_value)
            rf_scaled == RiskFreeDaily * n_days
        IN  metrics.sharpeRatio =
                IF Std(returns) > 0
                THEN Round(Div(Mean(returns) - rf_scaled, Std(returns)), 3)
                ELSE 0

\* ------------------------------------------------------------------------
\* The function run of run_simulation_async: the engine call and the
\* serialization of its result (RunSpec, FanSpec)
\* ------------------------------------------------------------------------

\* np.linspace(0, len(result.paths) - 1, 10, dtype=int)
sample_count == 10

\* step = max(1, sim_config.time_horizon // 50)
fan_points == 50

\* np.linspace(0, n - 1, k, dtype=int): k positions from 0 to n - 1, cut to integers
Linspace(n, k) == [i \in 1..k |-> ((i - 1) * (n - 1)) \div (k - 1)]

\* lines 474-475: result.paths[sample_indices]
SamplePaths(array) ==
    LET sample_indices == Linspace(Len(array), sample_count)
    IN  [i \in 1..sample_count |-> array[sample_indices[i] + 1]]

\* a stride of a twenty-fifth of the horizon
FanStepCoarse(time_horizon) == Max2(1, time_horizon \div (fan_points \div 2))

\* line 479
FanStep(time_horizon) == Max2(1, time_horizon \div fan_points)

\* range(0, sim_config.time_horizon + 1, step), from day on
RECURSIVE FanDays(_, _, _)
FanDays(day, time_horizon, step) ==
    IF day > time_horizon THEN <<>>
    ELSE <<day>> \o FanDays(day + step, time_horizon, step)

\* lines 477-489
FanChart(array, time_horizon) ==
    LET days == FanDays(0, time_horizon, FanStep(time_horizon))
    IN  [i \in 1..Len(days) |->
            LET values == Column(array, days[i] + 1)
            IN  [day |-> days[i],
                 p10 |-> Round(Percentile(values, 10), 2),
                 p25 |-> Round(Percentile(values, 25), 2),
                 p50 |-> Round(Percentile(values, 50), 2),
                 p75 |-> Round(Percentile(values, 75), 2),
                 p90 |-> Round(Percentile(values, 90), 2)]]

\* lines 474-475: the engine has returned, the sample paths are taken
TakeSamplePaths ==
    /\ pc = "done"
    /\ sample_paths = None
    /\ sample_paths' = SamplePaths(paths)
    /\ pc' = "sampled"
    /\ UNCHANGED <<rng, seed, assets, config, correlation_matrix, adjusted,
                   chol_calls, cholesky, random_returns, volatilities, mean_mult,
                   vol_mult, regimes, asset_returns, portfolio_returns, paths,
                   final_values, metrics, percentiles, drawdowns, error>>
    /\ UNCHANGED <<results, poolVars, apiVars, goalVars, fan_data, usageVars, laterVars>>

\* lines 477-499: the fan chart is built and the dictionary returned
BuildFanChart ==
    /\ pc = "sampled"
    /\ fan_data' = FanChart(paths, config.time_horizon)
    /\ pc' = "returned"
    /\ UNCHANGED <<rng, seed, assets, config, correlation_matrix, adjusted,
                   chol_calls, cholesky, random_returns, volatilities, mean_mult,
                   vol_mult, regimes, asset_returns, portfolio_returns, paths,
                   final_values, metrics, percentiles, drawdowns, error>>
    /\ UNCHANGED <<results, poolVars, apiVars, goalVars, sample_paths, usageVars, laterVars>>

Serialize == TakeSamplePaths \/ BuildFanChart

\* run: lines 443-499
RunNext == Construct \/ RunSimulation \/ Serialize

RunSpec == Init /\ [][RunNext]_vars

\* C15 as the specification states it: the sample paths are taken at equally
\* spaced positions of the paths sorted by final value, so their final
\* values do not decrease, the first is the smallest final value of all
\* paths and the last the largest.
C15_SamplesSpanDistribution ==
    sample_paths # None =>
        LET last(i) == sample_paths[i][Len(sample_paths[i])]
        IN  /\ Len(sample_paths) = sample_count
            /\ \A i \in 1..(sample_count - 1) : last(i) <= last(i + 1)
            /\ last(1) = MinSeq(final_values)
            /\ last(sample_count) = MaxSeq(final_values)

\* a result whose single path stays at the initial value over time_horizon steps
FlatPaths(time_horizon) == << [c \in 1..(time_horizon + 1) |-> Unit] >>

\* run at line 472, the engine call returned, for every horizon a request may carry
FanInit ==
    /\ pc = "done"
    /\ \E time_horizon \in timeHorizon_ge..timeHorizon_le : paths = FlatPaths(time_horizon)
    /\ final_values = FinalValues(paths)
    /\ config = StatsConfig(paths)
    /\ assets = <<Asset("SPY", Unit, 0, 0)>>
    /\ rng = 0
    /\ seed = NoSeed
    /\ correlation_matrix = None
    /\ adjusted = None
    /\ chol_calls = 0
    /\ cholesky = None
    /\ random_returns = None
    /\ volatilities = None
    /\ mean_mult = None
    /\ vol_mult = None
    /\ regimes = None
    /\ asset_returns = None
    /\ portfolio_returns = None
    /\ metrics = None
    /\ percentiles = None
    /\ drawdowns = None
    /\ error = None
    /\ results = <<>>
    /\ PoolIdle
    /\ ApiIdle
    /\ RestIdle

FanNext == Serialize

FanSpec == FanInit /\ [][FanNext]_vars

\* C16: the fan chart has one entry per step 0, k, 2k, ... up to the horizon T,
\* with k = max(1, floor(T / 50)); its first entry is step 0, it has T + 1
\* entries when T < 50 and between 51 and 100 entries when T >= 50.
C16_FanChartSteps ==
    fan_data # None =>
        LET T == config.time_horizon
            k == IF T \div 50 >= 1 THEN T \div 50 ELSE 1
            entries == Len(fan_data)
        IN  /\ \A i \in 1..entries : fan_data[i].day = (i - 1) * k /\ fan_data[i].day <= T
            /\ entries * k > T
            /\ entries >= 1 /\ fan_data[1].day = 0
            /\ T < 50 => entries = T + 1
            /\ T >= 50 => entries >= 51 /\ entries <= 100

\* the chart of the longest horizon: steps 0, 50, ..., 2500
C16_Witness ==
    /\ fan_data # None
    /\ config.time_horizon = timeHorizon_le
    /\ Len(fan_data) = 51
    /\ fan_data[51].day = 2500
    /\ fan_data[51].p50 = Unit

\* ------------------------------------------------------------------------
\* The daily usage limit of POST /api/simulation/run in src/backend (UsageSpec)
\* ------------------------------------------------------------------------

FREE_DAILY_SIMULATION_LIMIT == 10

\* concurrent /run requests
NumCallers == 2

Users == {"anonymous", "free", "premium"}

\* a request as it enters run_simulation: usage is the simulation_count of the
\* SimulationUsage object its session holds, row the table row behind it
\* (0: an object not yet stored), status the HTTP status raised (0: none),
\* body what the request carries
Bodies == {"valid", "holdings not 100%", "no historical data"}

Caller(user, body) ==
    [user |-> user, body |-> body, pc |-> "received", usage |-> 0, row |-> 0,
     status |-> 0]

\* the rows a day of sequential requests leaves: none, or one row whose
\* count is the number of checks passed
UsageInit ==
    /\ callers \in [1..NumCallers -> {Caller(u, b) : u \in Users, b \in Bodies}]
    /\ \E count \in 0..FREE_DAILY_SIMULATION_LIMIT :
        /\ usage_table = IF count = 0 THEN <<>> ELSE <<count>>
        /\ passed = count
    /\ pc = "init"
    /\ rng = 0
    /\ seed = NoSeed
    /\ assets = <<Asset("SPY", Unit, 0, 0)>>
    /\ config = StatsConfig(<< <<Unit, Unit>> >>)
    /\ correlation_matrix = None
    /\ NoLocals
    /\ results = <<>>
    /\ PoolIdle
    /\ ApiIdle
    /\ GoalIdle
    /\ AsyncIdle
    /\ LaterIdle

\* lines 184-190: user = await get_optional_user(credentials, db)
GetOptionalUser(i) ==
    /\ callers[i].pc = "received"
    /\ callers' = [callers EXCEPT ![i] =
            IF @.user = "anonymous"
            THEN [@ EXCEPT !.pc = "done", !.status = 401]
            ELSE [@ EXCEPT !.pc = "check"]]
    /\ UNCHANGED <<usage_table, passed>>
    /\ UNCHANGED <<engineVars, results, poolVars, apiVars, goalVars, asyncVars, laterVars>>

\* check_and_update_usage, lines 86-104: up to the awaited select, which
\* loads the row of today into the session of this request
SelectUsage(i) ==
    /\ callers[i].pc = "check"
    /\ callers' = [callers EXCEPT ![i] =
            IF @.user = "premium" THEN [@ EXCEPT !.pc = "run"]
            ELSE IF Len(usage_table) = 0 THEN [@ EXCEPT !.pc = "loaded", !.usage = 0, !.row = 0]
            ELSE IF Len(usage_table) = 1
                 THEN [@ EXCEPT !.pc = "loaded", !.usage = usage_table[1], !.row = 1]
            ELSE [@ EXCEPT !.pc = "done", !.status = 500]]
    /\ UNCHANGED <<usage_table, passed>>
    /\ UNCHANGED <<engineVars, results, poolVars, apiVars, goalVars, asyncVars, laterVars>>

\* check_and_update_usage, lines 106-122, and lines 195-199: the limit is
\* checked on the loaded count; the incremented count is written by commit
UpdateUsage(i) ==
    /\ callers[i].pc = "loaded"
    /\ IF callers[i].usage >= FREE_DAILY_SIMULATION_LIMIT
       THEN /\ callers' = [callers EXCEPT ![i].pc = "done", ![i].status = 429]
            /\ UNCHANGED <<usage_table, passed>>
       ELSE /\ callers' = [callers EXCEPT ![i].pc = "run", ![i].usage = @ + 1]
            /\ usage_table' =
                    IF callers[i].row = 0 THEN Append(usage_table, callers[i].usage + 1)
                    ELSE [usage_table EXCEPT ![callers[i].row] = callers[i].usage + 1]
            /\ passed' = passed + 1
    /\ UNCHANGED <<engineVars, results, poolVars, apiVars, goalVars, asyncVars, laterVars>>

\* lines 201-233: after the usage check the holdings and the historical
\* data are validated; then the simulation runs
ValidateRequest(i) ==
    /\ callers[i].pc = "run"
    /\ callers' = [callers EXCEPT ![i] =
            IF @.body = "valid" THEN [@ EXCEPT !.pc = "simulate"]
            ELSE [@ EXCEPT !.pc = "done", !.status = 400]]
    /\ UNCHANGED <<usage_table, passed>>
    /\ UNCHANGED <<engineVars, results, poolVars, apiVars, goalVars, asyncVars, laterVars>>

UsageNext ==
    \E i \in 1..NumCallers :
        GetOptionalUser(i) \/ SelectUsage(i) \/ UpdateUsage(i) \/ ValidateRequest(i)

UsageSpec == UsageInit /\ [][UsageNext]_vars

\* C17 as the specification states it: a free user passes the usage check at
\* most 10 times a day under every interleaving of concurrent requests and
\* the stored simulation_count never exceeds 10; anonymous callers never
\* pass; premium users are never limited.
C17_DailyLimitHolds ==
    /\ passed <= FREE_DAILY_SIMULATION_LIMIT
    /\ \A r \in DOMAIN usage_table : usage_table[r] <= FREE_DAILY_SIMULATION_LIMIT
    /\ \A i \in DOMAIN callers :
        /\ callers[i].user = "anonymous" => callers[i].pc \in {"received", "done"}
        /\ callers[i].user = "premium" => callers[i].status # 429

\* request j has written the usage table
Wrote(j) == callers[j].user = "free" /\ callers[j].pc \in {"run", "simulate", "done"}
                /\ callers[j].status \in {0, 400}

\* C29 as the specification states it: a /run request of a free user that
\* is rejected with status 400 after the usage check leaves the stored
\* simulation_count as the request found it. The request found
\* callers[i].usage - 1; no other request has written meanwhile.
C29_RejectedNotCounted ==
    \A i \in DOMAIN callers :
        (/\ callers[i].user = "free"
         /\ callers[i].status = 400
         /\ \A j \in DOMAIN callers : j # i => ~Wrote(j)) =>
            SumSeq(usage_table) = callers[i].usage - 1

\* ------------------------------------------------------------------------
\* The offloaded call of /run, every handler run to its response (ApiLiveSpec)
\* ------------------------------------------------------------------------

\* the event loop runs a handler that can take a step
ApiLiveSpec == ApiInit /\ [][ApiNext]_vars /\ WF_vars(ApiNext)

\* C18 as the specification states it: once a valid request is handed to
\* run_simulation_async, the awaiting caller eventually receives the
\* serialized result.
C18_OffloadDelivers ==
    (api_pc = "offload") ~>
        (api_pc = "responded" /\ response # None /\ response = HTTP(200, "result"))

\* ------------------------------------------------------------------------
\* The conditional variance of one engine call (Spec)
\* ------------------------------------------------------------------------

\* C19 as the specification states it: with GARCH enabled the variance of
\* path s and asset a starts at h_0 = sigma_a^2, follows
\* h_t = omega + alpha * (x_{t-1} * sigma_a)^2 + beta * h_{t-1} for t >= 1,
\* and the volatility used at step t is sqrt(h_t), so it already reflects
\* the shock of step t - 1.
C19_VolatilityFollowsLastShock ==
    (volatilities # None /\ config.use_garch) =>
        \A s \in 1..n_sims : \A a \in 1..n_assets : \A t \in 0..(n_days - 1) :
            LET x == [u \in 1..n_days |-> random_returns[s][u][a]]
                h_t == CurrentVariance(x, vols[a], t)
            IN  volatilities[s][t + 1][a] = Sqrt(h_t)

\* ------------------------------------------------------------------------
\* The regime chain of one engine call (Spec)
\* ------------------------------------------------------------------------

\* the step of run_simulation that draws the transitions and sets the regimes
RegimeStep == pc = "regime" /\ pc' = "returns" /\ config.use_regime_switching

\* C20: every path starts as Bull (1) at step 0; at every step t >= 1 the
\* regime follows from the regime of step t - 1 and the uniform variate
\* U[s,t] alone: from Bull it becomes Bear (0) exactly when U[s,t] < 0.05,
\* from Bear it becomes Bull exactly when U[s,t] < 0.10; a regime is 0 or 1.
C20_RegimeChain ==
    [][RegimeStep =>
        LET U == Tensor2(n_sims, n_days, RandomUniform(rng, n_sims * n_days))
            R == regimes'
        IN  /\ Len(R) = n_sims
            /\ \A s \in 1..n_sims :
                /\ Len(R[s]) = n_days
                /\ R[s][1] = 1
                /\ \A t \in 2..n_days :
                    /\ R[s][t] \in {0, 1}
                    /\ R[s][t - 1] = 1 => (R[s][t] = 0 <=> U[s][t] < 50000)
                    /\ R[s][t - 1] = 0 => (R[s][t] = 1 <=> U[s][t] < 100000)]_vars

\* a path that turns Bear at step 1 and Bull again at step 2, beside a path
\* that turns Bear and stays Bear
C20_Witness ==
    /\ regimes # None
    /\ config.use_regime_switching
    /\ \E s \in 1..n_sims : regimes[s] = <<1, 0, 1>>
    /\ \E s \in 1..n_sims : regimes[s][2] = 0 /\ regimes[s][3] = 0

\* ------------------------------------------------------------------------
\* The multipliers and the returns of one engine call (Spec)
\* ------------------------------------------------------------------------

\* C21: at every (s,t) the drift and volatility multipliers depend on the
\* regime alone, one pair for all assets: (1.5, 0.7) in Bull, (-0.5, 1.8) in
\* Bear; with regime switching disabled both are 1 at every (s,t).
C21_MultipliersByRegime ==
    mean_mult # None =>
        /\ Len(mean_mult) = n_sims /\ Len(vol_mult) = n_sims
        /\ \A s \in 1..n_sims :
            /\ Len(mean_mult[s]) = n_days /\ Len(vol_mult[s]) = n_days
            /\ \A t \in 1..n_days :
                IF config.use_regime_switching
                THEN /\ regimes[s][t] = 1 =>
                            mean_mult[s][t] = 1500000 /\ vol_mult[s][t] = 700000
                     /\ regimes[s][t] = 0 =>
                            mean_mult[s][t] = 0 - 500000 /\ vol_mult[s][t] = 1800000
                     /\ regimes[s][t] \in {0, 1}
                ELSE mean_mult[s][t] = Unit /\ vol_mult[s][t] = Unit

\* a run with regime switching in which a path is Bear at step 1
C21_Witness ==
    /\ mean_mult # None
    /\ config.use_regime_switching
    /\ n_days >= 2
    /\ \E s \in 1..n_sims :
        /\ regimes[s][2] = 0
        /\ mean_mult[s][2] = 0 - 500000
        /\ vol_mult[s][2] = 1800000
        /\ mean_mult[s][1] = 1500000

\* the step of run_simulation that computes the GARCH volatilities of
\* correlated returns
GarchStep ==
    /\ pc = "volatility" /\ pc' = "regime"
    /\ config.use_garch /\ config.use_correlation

\* C22 as the specification states it: with correlation and GARCH both
\* enabled the variance recurrence is driven by the innovations Z as drawn,
\* before the multiplication by the Cholesky factor, so the volatility of an
\* asset depends on that asset's own shocks only. Z is drawn again from the
\* generator state the draw started from.
C22_GarchOnOwnShocks ==
    [][GarchStep =>
        LET n == n_sims * n_days * n_assets
        IN  \A r0 \in 0..255 :
                RngAfter(r0, n) = rng =>
                    LET Z == Tensor3(n_sims, n_days, n_assets,
                                     GenerateRandomReturns(r0, n, config.use_fat_tails,
                                                           config.df))
                    IN  volatilities' = ApplyGarch(Z, vols)]_vars

\* Z' * V * m_sigma + mu * m_mu at (s,t,a), from the tensors of the run
LayeredReturn(s, t, a) ==
    Mul(Mul(random_returns[s][t][a], volatilities[s][t][a]), vol_mult[s][t])
    + Mul(means[a], mean_mult[s][t])

\* the step of run_simulation that adds the jumps
JumpStep == pc = "jumps" /\ pc' = "portfolio"

\* C23: the return of asset a at (s,t) is Z' * V * m_sigma + mu_a * m_mu + J
\* and the portfolio return is the sum over the assets of w_a times it; a
\* disabled layer contributes its identity, so with correlation, GARCH,
\* regime switching and jumps all off the asset return is Z * sigma_a + mu_a.
C23_ReturnComposition ==
    /\ [](asset_returns # None =>
            \A s \in 1..n_sims : \A t \in 1..n_days :
                /\ (pc = "jumps" \/ ~config.use_jump_diffusion) =>
                        \A a \in 1..n_assets :
                            asset_returns[s][t][a] = LayeredReturn(s, t, a)
                /\ (~config.use_correlation /\ ~config.use_garch
                        /\ ~config.use_regime_switching /\ ~config.use_jump_diffusion) =>
                        \A a \in 1..n_assets :
                            asset_returns[s][t][a] =
                                Mul(random_returns[s][t][a], vols[a]) + means[a]
                /\ portfolio_returns # None =>
                        portfolio_returns[s][t] =
                            SumSeq([a \in 1..n_assets |->
                                        Mul(asset_returns[s][t][a], weights[a])]))
    /\ [][JumpStep =>
            LET n == n_sims * n_days * n_assets
                U == Tensor3(n_sims, n_days, n_assets, RandomUniform(rng, n))
                sizes == Tensor3(n_sims, n_days, n_assets,
                                 RandomNormal(RngAfter(rng, n), 0 - 30000, 40000, n))
            IN  \A s \in 1..n_sims : \A t \in 1..n_days : \A a \in 1..n_assets :
                    asset_returns'[s][t][a] =
                        LayeredReturn(s, t, a)
                        + (IF U[s][t][a] < 20000 THEN sizes[s][t][a] ELSE 0)]_vars

\* a run with two assets and every layer on, in which a jump occurred
C23_Witness ==
    /\ portfolio_returns # None
    /\ n_assets = 2
    /\ config.use_correlation /\ config.use_garch
    /\ config.use_regime_switching /\ config.use_jump_diffusion
    /\ \E s \in 1..n_sims : \E t \in 1..n_days : \E a \in 1..n_assets :
            asset_returns[s][t][a] # LayeredReturn(s, t, a)

\* the step of run_simulation that draws the innovations
DrawStep == pc = "random" /\ pc' \in {"correlate", "volatility"}

\* C24 as the specification states it: with fat tails every innovation is a
\* Student-t(nu) draw multiplied by sqrt((nu - 2) / nu), which gives it unit
\* variance; without fat tails it is a standard normal draw, unscaled.
C24_FatTailsUnitVariance ==
    [][DrawStep =>
        LET n == n_sims * n_days * n_assets
            nu == config.df
            scale == Sqrt(DivInt((nu - 2) * Unit, nu))
            t_draws == StandardT(rng, nu, n)
            z_draws == StandardNormal(rng, n)
        IN  random_returns' =
                Tensor3(n_sims, n_days, n_assets,
                        [i \in 1..n |->
                            IF config.use_fat_tails THEN Mul(t_draws[i], scale)
                            ELSE z_draws[i]])]_vars

\* ------------------------------------------------------------------------
\* The synthesized correlation matrix (CorrSpec)
\* ------------------------------------------------------------------------

\* tickers of a portfolio
MaxTickers == 3

\* tickers of every class, and two the engine does not know
TickerUniverse == {"SPY", "AAPL", "QQQ", "BND", "TLT", "GLD", "USO", "XYZ", "BTC"}

TickerLists == UNION {[1..n -> TickerUniverse] : n \in 1..MaxTickers}

\* an engine about to be constructed and called with correlation on and no
\* matrix passed
CorrInit ==
    /\ pc = "init"
    /\ rng = 0
    /\ seed = NoSeed
    /\ \E list \in TickerLists :
            assets = [i \in 1..Len(list) |-> Asset(list[i], Unit \div Len(list), 0, 0)]
    /\ config = [StatsConfig(<< <<Unit, Unit>> >>) EXCEPT !.use_correlation = TRUE]
    /\ correlation_matrix = None
    /\ NoLocals
    /\ results = <<>>
    /\ PoolIdle
    /\ ApiIdle
    /\ RestIdle

\* run_simulation up to line 266
CorrNext == Construct \/ Begin

CorrSpec == CorrInit /\ [][CorrNext]_vars

\* C25: the synthesized matrix is symmetric with unit diagonal and, for every
\* pair of distinct tickers, its entry is fixed by the classes of the pair:
\* Tech-Tech 0.75, Equity-Equity not both tech 0.65, Bond-Bond 0.85,
\* Equity-Bond in either order -0.25, a pair with a Commodity 0.10, every
\* other pair 0.50.
C25_SynthesizedMatrix ==
    (pc = "cholesky" /\ correlation_matrix # None) =>
        LET m == correlation_matrix
            IsTech(x) == x \in {"AAPL", "MSFT", "GOOGL", "NVDA", "META", "AMD", "QQQ"}
            IsEquity(x) == x \in {"SPY", "QQQ", "VTI", "IWM", "AAPL", "MSFT", "GOOGL",
                                  "AMZN", "NVDA", "META", "TSLA", "AMD", "INTC", "NFLX"}
            IsBond(x) == x \in {"BND", "AGG", "TLT"}
            IsCommodity(x) == x \in {"GLD", "SLV", "USO"}
        IN  /\ Len(m) = n_assets
            /\ \A i \in 1..n_assets :
                /\ Len(m[i]) = n_assets
                /\ m[i][i] = CorrUnit
                /\ \A j \in 1..n_assets :
                    LET x == tickers[i]
                        y == tickers[j]
                        tt == IsTech(x) /\ IsTech(y)
                        ee == IsEquity(x) /\ IsEquity(y)
                        bb == IsBond(x) /\ IsBond(y)
                        eb == (IsEquity(x) /\ IsBond(y)) \/ (IsBond(x) /\ IsEquity(y))
                        c == IsCommodity(x) \/ IsCommodity(y)
                    IN  /\ m[i][j] = m[j][i]
                        /\ x # y =>
                            /\ tt => m[i][j] = 75000000
                            /\ (ee /\ ~tt) => m[i][j] = 65000000
                            /\ bb => m[i][j] = 85000000
                            /\ eb => m[i][j] = 0 - 25000000
                            /\ c => m[i][j] = 10000000
                            /\ ~(tt \/ ee \/ bb \/ eb \/ c) => m[i][j] = 50000000

\* the matrix of a bond, a stock and a commodity, in that order
C25_Witness ==
    /\ pc = "cholesky"
    /\ tickers = <<"BND", "AAPL", "GLD">>
    /\ correlation_matrix = << <<CorrUnit, 0 - 25000000, 10000000>>,
                               <<0 - 25000000, CorrUnit, 10000000>>,
                               <<10000000, 10000000, CorrUnit>> >>

\* ------------------------------------------------------------------------
\* The quote cache of StockDataService (QuoteSpec)
\* ------------------------------------------------------------------------

CACHE_TTL == 300

\* calls of get_quote on one ticker
MaxQuoteCalls == 3

\* the time that passes between two calls, in seconds: up to a day and more
TimeSteps == {1, 299, 300, 301, 86399, 86400, 86401, 86700}

NoTime == 0 - 1

\* timedelta.seconds of a delta of d >= 0 seconds: the seconds left over
\* after the whole days
TimedeltaSeconds(d) == d % 86400

\* _is_cache_valid
IsCacheValid(stored, now) ==
    IF stored = NoTime THEN FALSE
    ELSE TimedeltaSeconds(now - stored) < CACHE_TTL

\* what get_quote returns: the quote (0: None), whether it came from the
\* cache, and the age of the cache entry it came from
Quote(value, cached, age) == [value |-> value, cached |-> cached, age |-> age]

QuoteInit ==
    /\ QuoteIdle
    /\ FrontierIdle
    /\ StoreIdle
    /\ pc = "init"
    /\ rng = 0
    /\ seed = NoSeed
    /\ assets = <<Asset("SPY", Unit, 0, 0)>>
    /\ config = StatsConfig(<< <<Unit, Unit>> >>)
    /\ correlation_matrix = None
    /\ NoLocals
    /\ results = <<>>
    /\ PoolIdle
    /\ ApiIdle
    /\ GoalIdle
    /\ AsyncIdle
    /\ UsageIdle

\* time passes, then get_quote(ticker) runs: a valid entry is returned; else
\* the quote is fetched and, unless the fetch gave None, stored
GetQuote ==
    /\ quote_calls < MaxQuoteCalls
    /\ quote_calls' = quote_calls + 1
    /\ \E dt \in TimeSteps : clock' = clock + dt
    /\ IF IsCacheValid(cache_time, clock')
       THEN /\ quote' = Quote(cache, TRUE, clock' - cache_time)
            /\ UNCHANGED <<cache, cache_time, fetches>>
       ELSE \E result \in BOOLEAN :
                /\ fetches' = fetches + 1
                /\ IF result
                   THEN /\ cache' = fetches + 1
                        /\ cache_time' = clock'
                        /\ quote' = Quote(fetches + 1, FALSE, 0)
                   ELSE /\ UNCHANGED <<cache, cache_time>>
                        /\ quote' = Quote(0, FALSE, 0)
    /\ UNCHANGED <<engineVars, results, poolVars, apiVars, goalVars, asyncVars, usageVars>>
    /\ UNCHANGED <<frontierVars, storeVars>>

QuoteNext == GetQuote

QuoteSpec == QuoteInit /\ [][QuoteNext]_vars

\* C26 as the specification states it: get_quote never serves a cached quote
\* that is 300 seconds old or older, whole days included: such a call
\* fetches the quote again.
C26_NoStaleQuote ==
    (quote # None /\ quote.cached) => quote.age < CACHE_TTL

\* ------------------------------------------------------------------------
\* The efficient frontier of src/backend (FrontierSpec)
\* ------------------------------------------------------------------------

\* num_portfolios of a call
MaxPortfolios == 3

\* annualised returns and volatilities a random portfolio may have, in Unit
ReturnGrid == {0 - 50000, 0, 80000, 120000}
VolatilityGrid == {100000, 150000, 200000}

\* a point of the list built at lines 264-277, in generation order
Point(id, return, vol) == [id |-> id, return |-> return, volatility |-> vol]

PointLists ==
    UNION {{[i \in 1..n |-> Point(i, r[i], v[i])] :
                r \in [1..n -> ReturnGrid], v \in [1..n -> VolatilityGrid]} :
           n \in 1..MaxPortfolios}

\* list.sort(key=volatility): a stable sort, by insertion from the left
RECURSIVE InsertByVolatility(_, _)
InsertByVolatility(sorted, p) ==
    IF sorted = <<>> THEN <<p>>
    ELSE IF sorted[Len(sorted)].volatility <= p.volatility THEN Append(sorted, p)
    ELSE Append(InsertByVolatility(SubSeq(sorted, 1, Len(sorted) - 1), p),
                sorted[Len(sorted)])

RECURSIVE SortByVolatility(_)
SortByVolatility(points) ==
    IF points = <<>> THEN <<>>
    ELSE InsertByVolatility(SortByVolatility(SubSeq(points, 1, Len(points) - 1)),
                            points[Len(points)])

\* float('-inf')
MinusInf == 0 - 2000000000

\* a scan that keeps a point only when its return exceeds the maximum so far
RECURSIVE FrontierScanStrict(_, _)
FrontierScanStrict(points, max_return) ==
    IF points = <<>> THEN <<>>
    ELSE IF Head(points).return > max_return
         THEN <<Head(points)>> \o FrontierScanStrict(Tail(points), Head(points).return)
         ELSE FrontierScanStrict(Tail(points), max_return)

\* lines 285-291: the loop over the sorted points
RECURSIVE FrontierScan(_, _)
FrontierScan(points, max_return) ==
    IF points = <<>> THEN <<>>
    ELSE IF Head(points).return >= max_return
         THEN <<Head(points)>> \o FrontierScan(Tail(points), Head(points).return)
         ELSE FrontierScan(Tail(points), max_return)

\* the calls: too few tickers, too little data, or enough of both
FrontierInit ==
    /\ frontier_in \in {[n_tickers |-> 1, min_len |-> 30],
                        [n_tickers |-> 2, min_len |-> 29],
                        [n_tickers |-> 2, min_len |-> 30]}
    /\ frontier_out = None
    /\ QuoteIdle
    /\ StoreIdle
    /\ pc = "init"
    /\ rng = 0
    /\ seed = NoSeed
    /\ assets = <<Asset("SPY", Unit, 0, 0)>>
    /\ config = StatsConfig(<< <<Unit, Unit>> >>)
    /\ correlation_matrix = None
    /\ NoLocals
    /\ results = <<>>
    /\ PoolIdle
    /\ ApiIdle
    /\ GoalIdle
    /\ AsyncIdle
    /\ UsageIdle

\* _generate_efficient_frontier_sync: the random portfolios are whatever the
\* weights drawn make them
GenerateEfficientFrontier ==
    /\ frontier_out = None
    /\ IF frontier_in.n_tickers < 2
       THEN frontier_out' = [points |-> <<>>, error |-> "Need at least 2 assets"]
       ELSE IF frontier_in.min_len < 30
       THEN frontier_out' = [points |-> <<>>, error |-> "Insufficient data"]
       ELSE \E points \in PointLists :
                LET sorted == SortByVolatility(points)
                IN  frontier_out' =
                        [all_portfolios |-> sorted,
                         efficient_frontier |->
                            FrontierScan(SortByVolatility(sorted), MinusInf)]
    /\ UNCHANGED frontier_in
    /\ UNCHANGED <<engineVars, results, poolVars, apiVars, goalVars, asyncVars, usageVars>>
    /\ UNCHANGED <<quoteVars, storeVars>>

FrontierNext == GenerateEfficientFrontier

FrontierSpec == FrontierInit /\ [][FrontierNext]_vars

\* the points of all whose return is at least the return of every point
\* before them, from position i on
RECURSIVE Leaders(_, _)
Leaders(all, i) ==
    IF i > Len(all) THEN <<>>
    ELSE IF \A j \in 1..(i - 1) : all[i].return >= all[j].return
         THEN <<all[i]>> \o Leaders(all, i + 1)
         ELSE Leaders(all, i + 1)

Returned == frontier_out # None /\ "efficient_frontier" \in DOMAIN frontier_out

\* C27: the efficient frontier is exactly the subsequence of the generated
\* portfolios, in order of non-decreasing volatility, whose return is at
\* least the return of every portfolio before it in that order; along it
\* volatility and return do not decrease and its first point has the
\* smallest volatility of all portfolios.
C27_EfficientFrontier ==
    Returned =>
        LET all == frontier_out.all_portfolios
            ef == frontier_out.efficient_frontier
        IN  /\ \A i \in 1..(Len(all) - 1) : all[i].volatility <= all[i + 1].volatility
            /\ ef = Leaders(all, 1)
            /\ \A i \in 1..(Len(ef) - 1) :
                /\ ef[i].volatility <= ef[i + 1].volatility
                /\ ef[i].return <= ef[i + 1].return
            /\ Len(ef) >= 1
            /\ \A j \in 1..Len(all) : ef[1].volatility <= all[j].volatility

\* three portfolios generated in the order high, low, middle volatility, the
\* middle one with a return below the low one: the frontier has the low and
\* the high one
C27_Witness ==
    /\ Returned
    /\ Len(frontier_out.all_portfolios) = 3
    /\ frontier_out.efficient_frontier =
            <<Point(2, 80000, 100000), Point(1, 80000, 200000)>>
    /\ frontier_out.all_portfolios[2] = Point(3, 0, 150000)

\* ------------------------------------------------------------------------
\* The portfolios of one user in the in-memory API (StoreSpec)
\* ------------------------------------------------------------------------

\* create and delete requests of one user
MaxOps == 4

PortfolioNames == {"Growth", "Income", "Savings"}

\* a registered user with no portfolio (index.py line 153)
StoreInit ==
    /\ StoreIdle
    /\ QuoteIdle
    /\ FrontierIdle
    /\ pc = "init"
    /\ rng = 0
    /\ seed = NoSeed
    /\ assets = <<Asset("SPY", Unit, 0, 0)>>
    /\ config = StatsConfig(<< <<Unit, Unit>> >>)
    /\ correlation_matrix = None
    /\ NoLocals
    /\ results = <<>>
    /\ PoolIdle
    /\ ApiIdle
    /\ GoalIdle
    /\ AsyncIdle
    /\ UsageIdle

\* POST /api/portfolios
create_portfolio(name) ==
    /\ portfolio_ops < MaxOps
    /\ portfolio_ops' = portfolio_ops + 1
    /\ LET portfolio_id == Len(portfolios_db) + 1
       IN  portfolios_db' = Append(portfolios_db, [id |-> portfolio_id, name |-> name])
    /\ UNCHANGED <<engineVars, results, poolVars, apiVars, goalVars, asyncVars, usageVars>>
    /\ UNCHANGED <<quoteVars, frontierVars>>

\* DELETE /api/portfolios/{portfolio_id}
delete_portfolio(portfolio_id) ==
    /\ portfolio_ops < MaxOps
    /\ portfolio_ops' = portfolio_ops + 1
    /\ portfolios_db' = SelectSeq(portfolios_db, LAMBDA p : p.id # portfolio_id)
    /\ UNCHANGED <<engineVars, results, poolVars, apiVars, goalVars, asyncVars, usageVars>>
    /\ UNCHANGED <<quoteVars, frontierVars>>

StoreNext ==
    \/ \E name \in PortfolioNames : create_portfolio(name)
    \/ \E portfolio_id \in 1..MaxOps : delete_portfolio(portfolio_id)

StoreSpec == StoreInit /\ [][StoreNext]_vars

\* C28 as the specification states it: after any sequence of creations and
\* deletions by one user the stored portfolios of that user have pairwise
\* distinct ids.
C28_DistinctIds ==
    \A i \in 1..Len(portfolios_db) : \A j \in 1..Len(portfolios_db) :
        i # j => portfolios_db[i].id # portfolios_db[j].id

\* ------------------------------------------------------------------------
\* The median crossing day and the success count (GoalSpec)
\* ------------------------------------------------------------------------

\* C30: if strictly more than half of the final values are at or above the
\* target, medianCrossingDay is not null and is at most T; and
\* medianCrossingDay is 0 exactly when the target is at most the initial
\* value V0.
C30_CrossingDayConsistent ==
    \A g \in 1..Len(goals) :
        LET r == goals[g]
            target == goal_targets[g]
        IN  /\ 2 * r.successCount > r.totalSimulations =>
                /\ r.medianCrossingDay # NoDay
                /\ r.medianCrossingDay >= 0
                /\ r.medianCrossingDay <= n_days
            /\ r.medianCrossingDay = 0 <=> target <= config.initial_value

\* two of three paths end above a target that the median path reaches only
\* on the last day
C30_Witness ==
    /\ goals # <<>>
    /\ goals[1].totalSimulations = 3
    /\ goals[1].successCount = 2
    /\ goal_targets[1] > config.initial_value
    /\ goals[1].medianCrossingDay = n_days
    /\ n_days = 2

====
